---- MODULE Spec2Model ----
(***************************************************************************)
(* Seed reconciliation of the ASM cloud connector                          *)
(* (internal/connector/service.go): Connector.SyncResources with its       *)
(* helpers dedup, normalise, normaliseResource, getResourceType,           *)
(* getErrorCode and getSeeds; the run around it (pkg/core/core.go): the     *)
(* choice of the API key, the connector's Authenticate, then               *)
(* AWSProvider.GetResources (internal/aws/cloud_provider.go), then         *)
(* SyncResources.                                                          *)
(*                                                                         *)
(* A Go string is modelled as a sequence of one-character strings, so that *)
(* trimming, prefix stripping, URL splitting, IP parsing and IP printing   *)
(* are computed character by character as the Go code computes them.       *)
(***************************************************************************)
EXTENDS Integers, Sequences, FiniteSets, TLC

\* ------------------------------------------------------------------------
\* Characters and package strings
\* ------------------------------------------------------------------------

Upper == <<"A","B","C","D","E","F","G","H","I","J","K","L","M",
           "N","O","P","Q","R","S","T","U","V","W","X","Y","Z">>

Lower == <<"a","b","c","d","e","f","g","h","i","j","k","l","m",
           "n","o","p","q","r","s","t","u","v","w","x","y","z">>

DecDigits == <<"0","1","2","3","4","5","6","7","8","9">>

HexDigits == <<"0","1","2","3","4","5","6","7","8","9","a","b","c","d","e","f">>

Range(f) == {f[i] : i \in DOMAIN f}

IsUpper(ch) == ch \in Range(Upper)

IsLetter(ch) == ch \in Range(Upper) \cup Range(Lower)

IsDigit(ch) == ch \in Range(DecDigits)

\* unicode.ToLower on one ASCII character
LowerOf(ch) ==
  IF IsUpper(ch) THEN Lower[CHOOSE i \in DOMAIN Upper : Upper[i] = ch] ELSE ch

IsHex(ch) == LowerOf(ch) \in Range(HexDigits)

DigitVal(ch) == (CHOOSE i \in DOMAIN DecDigits : DecDigits[i] = ch) - 1

HexVal(ch) == (CHOOSE i \in DOMAIN HexDigits : HexDigits[i] = LowerOf(ch)) - 1

\* s[n:] and s[:n] of Go, n counted in characters
Drop(s, n) == SubSeq(s, n + 1, Len(s))

Take(s, n) == SubSeq(s, 1, n)

\* strings.HasPrefix, strings.HasSuffix
HasPrefix(s, p) == Len(s) >= Len(p) /\ Take(s, Len(p)) = p

HasSuffix(s, p) == Len(s) >= Len(p) /\ Drop(s, Len(s) - Len(p)) = p

\* strings.TrimPrefix, strings.TrimSuffix: one occurrence is removed
TrimPrefix(s, p) == IF HasPrefix(s, p) THEN Drop(s, Len(p)) ELSE s

TrimSuffix(s, p) == IF HasSuffix(s, p) THEN Take(s, Len(s) - Len(p)) ELSE s

\* strings.Index, 1-based; 0 when sub does not occur (Go: -1)
Index(s, sub) ==
  LET hits == {i \in 1..(Len(s) - Len(sub) + 1) : SubSeq(s, i, i + Len(sub) - 1) = sub}
  IN IF hits = {} THEN 0 ELSE CHOOSE i \in hits : \A j \in hits : i <= j

\* strings.LastIndex, 1-based; 0 when sub does not occur
LastIndex(s, sub) ==
  LET hits == {i \in 1..(Len(s) - Len(sub) + 1) : SubSeq(s, i, i + Len(sub) - 1) = sub}
  IN IF hits = {} THEN 0 ELSE CHOOSE i \in hits : \A j \in hits : i >= j

\* strings.Contains
Contains(s, sub) == Index(s, sub) # 0

\* strings.ToLower
ToLower(s) == [i \in 1..Len(s) |-> LowerOf(s[i])]

\* unicode.IsSpace, on the characters of the model's alphabet
IsSpace(ch) == ch = " "

\* strings.TrimSpace
TrimSpace(s) ==
  LET keep == {i \in 1..Len(s) : ~IsSpace(s[i])}
  IN IF keep = {} THEN <<>>
     ELSE SubSeq(s, CHOOSE i \in keep : \A j \in keep : i <= j,
                    CHOOSE i \in keep : \A j \in keep : i >= j)

\* ------------------------------------------------------------------------
\* net.ParseIP, IP.To4, IP.String
\* An IP is its eight 16-bit groups; an IPv4 address a.b.c.d is held, as in
\* Go's 16-byte form, as ::ffff:a.b.c.d. NilIP is the nil IP.
\* ------------------------------------------------------------------------

NilIP == <<>>

\* netip.parseIPv4Fields: the four octets of s, or <<>> on an error
RECURSIVE parseIPv4Fields(_, _, _, _, _)
parseIPv4Fields(s, i, val, digLen, fields) ==
  IF i > Len(s)
  THEN IF Len(fields) < 3 THEN <<>> ELSE Append(fields, val)
  ELSE IF IsDigit(s[i])
       THEN IF digLen = 1 /\ val = 0 THEN <<>>
            ELSE IF val * 10 + DigitVal(s[i]) > 255 THEN <<>>
            ELSE parseIPv4Fields(s, i + 1, val * 10 + DigitVal(s[i]), digLen + 1, fields)
       ELSE IF s[i] = "."
       THEN IF i = 1 \/ i = Len(s) \/ s[i - 1] = "." THEN <<>>
            ELSE IF Len(fields) = 3 THEN <<>>
            ELSE parseIPv4Fields(s, i + 1, 0, 0, Append(fields, val))
       ELSE <<>>

\* number of leading hexadecimal digits of s
RECURSIVE HexRun(_)
HexRun(s) == IF s # <<>> /\ IsHex(s[1]) THEN 1 + HexRun(Tail(s)) ELSE 0

\* value of a string of hexadecimal digits
RECURSIVE HexNum(_)
HexNum(s) == IF s = <<>> THEN 0 ELSE HexNum(Take(s, Len(s) - 1)) * 16 + HexVal(s[Len(s)])

BadV6 == [ok |-> FALSE, s |-> <<>>, ell |-> -1, g |-> <<>>]

\* the loop of netip.parseIPv6: g are the groups read so far (Go's i is
\* 2 * Len(g)), ell the group index of the "::" or -1
RECURSIVE parseIPv6Loop(_, _, _)

\* after a hex group and its ':' : s starts with what follows the colon
afterColon(s, ell, g) ==
  IF s[1] = ":"
  THEN IF ell >= 0 THEN BadV6
       ELSE IF Tail(s) = <<>> THEN [ok |-> TRUE, s |-> <<>>, ell |-> Len(g), g |-> g]
       ELSE parseIPv6Loop(Tail(s), Len(g), g)
  ELSE parseIPv6Loop(s, ell, g)

\* after a hex group was saved: s is what follows its digits
afterGroup(s, ell, g) ==
  IF s = <<>> THEN [ok |-> TRUE, s |-> s, ell |-> ell, g |-> g]
  ELSE IF s[1] # ":" THEN BadV6
  ELSE IF Len(s) = 1 THEN BadV6
  ELSE afterColon(Tail(s), ell, g)

\* a trailing embedded IPv4 address with the octets f
embeddedIPv4(ell, g, f) ==
  IF (ell < 0 /\ Len(g) # 6) \/ Len(g) + 2 > 8 THEN BadV6
  ELSE IF f = <<>> THEN BadV6
  ELSE [ok |-> TRUE, s |-> <<>>, ell |-> ell,
        g |-> g \o <<f[1] * 256 + f[2], f[3] * 256 + f[4]>>]

\* one round of the loop: s starts with off hexadecimal digits
hexGroup(s, ell, g, off) ==
  IF off > 4 \/ off = 0 THEN BadV6
  ELSE IF off < Len(s) /\ s[off + 1] = "."
       THEN embeddedIPv4(ell, g, parseIPv4Fields(s, 1, 0, 0, <<>>))
       ELSE afterGroup(Drop(s, off), ell, Append(g, HexNum(Take(s, off))))

parseIPv6Loop(s, ell, g) ==
  IF Len(g) >= 8 THEN [ok |-> TRUE, s |-> s, ell |-> ell, g |-> g]
  ELSE hexGroup(s, ell, g, HexRun(s))

Zeros(n) == [k \in 1..n |-> 0]

\* the end of netip.parseIPv6: the whole string was used, and the "::" stands
\* for the groups that are missing
expandEllipsis(r) ==
  IF ~r.ok \/ r.s # <<>> THEN NilIP
  ELSE IF Len(r.g) < 8
       THEN IF r.ell < 0 THEN NilIP
            ELSE Take(r.g, r.ell) \o Zeros(8 - Len(r.g)) \o Drop(r.g, r.ell)
       ELSE IF r.ell >= 0 THEN NilIP ELSE r.g

\* netip.parseIPv6 (a zone makes net.ParseIP return nil): the eight groups or NilIP
parseIPv6(s) ==
  IF Contains(s, <<"%">>) THEN NilIP
  ELSE IF s = <<":", ":">> THEN Zeros(8)
  ELSE expandEllipsis(parseIPv6Loop(TrimPrefix(s, <<":", ":">>),
                                    IF HasPrefix(s, <<":", ":">>) THEN 0 ELSE -1, <<>>))

\* the 16-byte form of the IPv4 address with the octets f
v4InV6(f) ==
  IF f = <<>> THEN NilIP
  ELSE <<0, 0, 0, 0, 0, 65535, f[1] * 256 + f[2], f[3] * 256 + f[4]>>

\* netip.parseIPv4 widened to the 16-byte form
parseIPv4(s) == v4InV6(parseIPv4Fields(s, 1, 0, 0, <<>>))

\* net.ParseIP (netip.ParseAddr decides by the first of '.', ':' and '%')
\* the first of '.', ':' and '%' in s, "" when there is none
RECURSIVE firstMark(_, _)
firstMark(s, i) ==
  IF i > Len(s) THEN ""
  ELSE IF s[i] \in {".", ":", "%"} THEN s[i]
  ELSE firstMark(s, i + 1)

parseAddr(s, mark) ==
  IF mark = "." THEN parseIPv4(s)
  ELSE IF mark = ":" THEN parseIPv6(s)
  ELSE NilIP

ParseIP(s) == parseAddr(s, firstMark(s, 1))

\* IP.To4() != nil
IsV4(ip) == ip # NilIP /\ Take(ip, 5) = Zeros(5) /\ ip[6] = 65535

\* strconv.Itoa on a byte
RECURSIVE Dec(_)
Dec(n) == IF n < 10 THEN <<DecDigits[n + 1]>> ELSE Dec(n \div 10) \o <<DecDigits[(n % 10) + 1]>>

\* netip appendHex: lowercase, no leading zeros
RECURSIVE Hex(_)
Hex(n) == IF n < 16 THEN <<HexDigits[n + 1]>> ELSE Hex(n \div 16) \o <<HexDigits[(n % 16) + 1]>>

\* length of the run of zero groups of ip that starts at group i (1-based)
RECURSIVE ZeroRun(_, _)
ZeroRun(ip, i) == IF i <= 8 /\ ip[i] = 0 THEN 1 + ZeroRun(ip, i + 1) ELSE 0

\* netip Addr.string6: the first longest run of two or more zero groups (groups
\* zs .. ze-1) becomes "::"
RECURSIVE string6From(_, _, _, _)
string6From(ip, i, zs, ze) ==
  IF i > 8 THEN <<>>
  ELSE IF i = zs
       THEN <<":", ":">>
            \o (IF ze > 8 THEN <<>> ELSE Hex(ip[ze]) \o string6From(ip, ze + 1, zs, ze))
       ELSE (IF i > 1 THEN <<":">> ELSE <<>>) \o Hex(ip[i]) \o string6From(ip, i + 1, zs, ze)

\* the start of the first longest run of two or more zero groups, 0 when none
zeroStart(ip) ==
  IF \A i \in 1..8 : ZeroRun(ip, i) < 2 THEN 0
  ELSE CHOOSE i \in 1..8 :
         /\ ZeroRun(ip, i) >= 2
         /\ \A j \in 1..8 : ZeroRun(ip, j) < ZeroRun(ip, i) \/ (ZeroRun(ip, j) = ZeroRun(ip, i) /\ i <= j)

string6Zero(ip, zs) == string6From(ip, 1, zs, IF zs = 0 THEN 0 ELSE zs + ZeroRun(ip, zs))

string6(ip) == string6Zero(ip, zeroStart(ip))

\* IP.String
IPString(ip) ==
  IF IsV4(ip)
  THEN Dec(ip[7] \div 256) \o <<".">> \o Dec(ip[7] % 256) \o <<".">>
       \o Dec(ip[8] \div 256) \o <<".">> \o Dec(ip[8] % 256)
  ELSE string6(ip)

\* ------------------------------------------------------------------------
\* net/url: Parse and URL.Hostname, as used by normaliseResource.
\* The strings of the model hold no '%' escape and no control character, so
\* the only errors of url.Parse are those of the scheme, the first path
\* segment and the authority. A parsed URL is [err, Host].
\* ------------------------------------------------------------------------

URLError == [err |-> TRUE, Host |-> <<>>]

NoHost == [err |-> FALSE, Host |-> <<>>]

\* url.getScheme from character i on: [err, scheme, rest]
RECURSIVE getScheme(_, _)
getScheme(rawURL, i) ==
  IF i > Len(rawURL) THEN [err |-> FALSE, scheme |-> <<>>, rest |-> rawURL]
  ELSE IF IsLetter(rawURL[i]) THEN getScheme(rawURL, i + 1)
  ELSE IF IsDigit(rawURL[i]) \/ rawURL[i] \in {"+", "-", "."}
       THEN IF i = 1 THEN [err |-> FALSE, scheme |-> <<>>, rest |-> rawURL]
            ELSE getScheme(rawURL, i + 1)
  ELSE IF rawURL[i] = ":"
       THEN IF i = 1 THEN [err |-> TRUE, scheme |-> <<>>, rest |-> <<>>]
            ELSE [err |-> FALSE, scheme |-> Take(rawURL, i - 1), rest |-> Drop(rawURL, i)]
  ELSE [err |-> FALSE, scheme |-> <<>>, rest |-> rawURL]

\* url.validOptionalPort: "" or ":" followed by digits only
validOptionalPort(port) ==
  port = <<>> \/ (port[1] = ":" /\ \A i \in 2..Len(port) : IsDigit(port[i]))

\* characters url.unescape accepts in a host (shouldEscape(ch, encodeHost) is false)
HostCharOK(ch) ==
  \/ IsLetter(ch) \/ IsDigit(ch)
  \/ ch \in {"-", "_", ".", "~", "!", "$", "&", "'", "(", ")", "*", "+", ",", ";",
            "=", ":", "[", "]", "<", ">"}

\* url.validUserinfo
validUserinfo(u) ==
  \A i \in 1..Len(u) :
    \/ IsLetter(u[i]) \/ IsDigit(u[i])
    \/ u[i] \in {"-", ".", "_", ":", "~", "!", "$", "&", "'", "(", ")", "*", "+",
                 ",", ";", "=", "%", "@"}

\* url.parseHost, the host in brackets: it must be an IPv6 literal
bracketedHost(hostname, colonPort) ==
  IF ~validOptionalPort(colonPort) THEN URLError
  ELSE IF \E i \in 1..Len(hostname) : ~HostCharOK(hostname[i]) THEN URLError
  ELSE IF ParseIP(hostname) = NilIP \/ ~Contains(hostname, <<":">>) THEN URLError
  ELSE [err |-> FALSE, Host |-> <<"[">> \o hostname \o <<"]">> \o colonPort]

\* url.parseHost, no brackets: a trailing ":port" must be numeric
plainHost(host, colon) ==
  IF colon # 0 /\ ~validOptionalPort(Drop(host, colon - 1)) THEN URLError
  ELSE IF \E i \in 1..Len(host) : ~HostCharOK(host[i]) THEN URLError
  ELSE [err |-> FALSE, Host |-> host]

parseHostAt(host, open, close) ==
  IF open # 0
  THEN IF close = 0 \/ close < open THEN URLError
       ELSE bracketedHost(SubSeq(host, open + 1, close - 1), Drop(host, close))
  ELSE plainHost(host, LastIndex(host, <<":">>))

\* url.parseHost (Go 1.25, the toolchain of the Dockerfile)
parseHost(host) == parseHostAt(host, LastIndex(host, <<"[">>), LastIndex(host, <<"]">>))

\* url.parseAuthority: userinfo up to the last '@' (at), then the host h
authorityAt(authority, at, h) ==
  IF h.err THEN URLError
  ELSE IF at # 0 /\ ~validUserinfo(Take(authority, at - 1)) THEN URLError
  ELSE h

parseAuthorityAt(authority, at) == authorityAt(authority, at, parseHost(Drop(authority, at)))

parseAuthority(authority) == parseAuthorityAt(authority, LastIndex(authority, <<"@">>))

\* strings.Cut(s, sep): the part before the first sep (all of s when absent)
cutAt(s, i) == IF i = 0 THEN s ELSE Take(s, i - 1)

Before(s, sep) == cutAt(s, Index(s, sep))

\* url.parse after getScheme: rest is what follows the scheme, without the query
parseRest(scheme, rest) ==
  IF ~HasPrefix(rest, <<"/">>) /\ scheme # <<>> THEN NoHost
  ELSE IF ~HasPrefix(rest, <<"/">>) /\ Contains(Before(rest, <<"/">>), <<":">>) THEN URLError
  ELSE IF (scheme # <<>> \/ ~HasPrefix(rest, <<"/", "/", "/">>)) /\ HasPrefix(rest, <<"/", "/">>)
       THEN parseAuthority(Before(Drop(rest, 2), <<"/">>))
       ELSE NoHost

parseScheme(sch) ==
  IF sch.err THEN URLError ELSE parseRest(sch.scheme, Before(sch.rest, <<"?">>))

\* url.Parse: the fragment is cut off first
parseNoFragment(u) == IF u = <<"*">> THEN NoHost ELSE parseScheme(getScheme(u, 1))

URLParse(rawURL) == parseNoFragment(Before(rawURL, <<"#">>))

\* URL.Hostname (url.splitHostPort): the host without a valid port and without brackets
stripBrackets(h) ==
  IF HasPrefix(h, <<"[">>) /\ HasSuffix(h, <<"]">>) THEN SubSeq(h, 2, Len(h) - 1) ELSE h

stripPort(host, colon) ==
  IF colon # 0 /\ validOptionalPort(Drop(host, colon - 1)) THEN Take(host, colon - 1) ELSE host

\* URL.Hostname that leaves port and brackets in place
HostnameWithPort(host) == host

Hostname(host) == stripBrackets(stripPort(host, LastIndex(host, <<":">>)))

\* ------------------------------------------------------------------------
\* golang.org/x/net/idna: Lookup.ToASCII(host) returns no error. For an ASCII
\* host the Lookup profile (STD3 rules, hyphen checks, no DNS length check)
\* accepts letters, digits, '-' and '.', and rejects a label that starts or
\* ends with '-' or has "--" in third and fourth place. Labels with the ACE
\* prefix "xn--" (punycode) are outside the alphabet of the model.
\* ------------------------------------------------------------------------

\* the labels of a host: its parts between dots
RECURSIVE Labels(_)

labelsAt(s, dot) ==
  IF dot = 0 THEN <<s>> ELSE <<Take(s, dot - 1)>> \o Labels(Drop(s, dot))

Labels(s) == labelsAt(s, Index(s, <<".">>))

\* idna validateLabel with CheckHyphens
validateLabel(l) ==
  \/ l = <<>>
  \/ /\ ~(Len(l) > 4 /\ l[3] = "-" /\ l[4] = "-")
     /\ l[1] # "-"
     /\ l[Len(l)] # "-"

allLabelsValid(ls) == \A k \in 1..Len(ls) : validateLabel(ls[k])

idnaLookupOK(host) ==
  /\ \A i \in 1..Len(host) : IsLetter(host[i]) \/ IsDigit(host[i]) \/ host[i] \in {"-", "."}
  /\ allLabelsValid(Labels(host))

\* ------------------------------------------------------------------------
\* internal/connector/service.go: the pure helpers
\* ------------------------------------------------------------------------

resourceDomain == "Domain"

resourceIPv4 == "IPv4"

resourceIPv6 == "IPv6"

NotNormalised == [ok |-> FALSE, value |-> <<>>, branch |-> "none"]

\* normaliseResource, lines 243-260: the host is an IP address or a domain;
\* branch records which of the two returns produced the value
normaliseHost(host, ip, dom) ==
  IF ip # NilIP THEN [ok |-> TRUE, value |-> IPString(ip), branch |-> "ip"]
  ELSE IF Len(dom) = 0 THEN NotNormalised
  ELSE IF ~idnaLookupOK(dom) THEN NotNormalised
  ELSE [ok |-> TRUE, value |-> dom, branch |-> "domain"]

\* normaliseResource, lines 238-243: url.Parse and u.Hostname()
normaliseURL(u, host) ==
  IF u.err \/ u.Host = <<>> THEN NotNormalised
  ELSE normaliseHost(host, ParseIP(host), TrimSuffix(ToLower(host), <<".">>))

\* normaliseResource, lines 233-236: ensure it has a scheme
withScheme(str) ==
  IF ~Contains(str, <<":", "/", "/">>)
  THEN <<"h", "t", "t", "p", ":", "/", "/">> \o str ELSE str

\* normaliseResource, lines 226-231: handle bare IPv6
wrapBareIPv6(str, ip) ==
  IF Contains(str, <<":">>) /\ ~Contains(str, <<"[">>) /\ ip # NilIP /\ ~IsV4(ip)
  THEN <<"[">> \o str \o <<"]">> ELSE str

normaliseParsed(u) == normaliseURL(u, Hostname(u.Host))

normaliseStripped(str) == normaliseParsed(URLParse(withScheme(wrapBareIPv6(str, ParseIP(str)))))

normaliseTrimmed(str) ==
  IF str = <<>> THEN NotNormalised ELSE normaliseStripped(TrimPrefix(str, <<"*", ".">>))

\* normaliseResource(raw) (string, bool)
normaliseResource(str) == normaliseTrimmed(TrimSpace(str))

\* getResourceType with the Domain and IPv4 results the wrong way round
typeOfIPSwapped(ip) ==
  IF ip = NilIP THEN resourceIPv4
  ELSE IF IsV4(ip) THEN resourceDomain
  ELSE resourceIPv6

\* getResourceType(resource) string
typeOfIP(ip) ==
  IF ip = NilIP THEN resourceDomain
  ELSE IF IsV4(ip) THEN resourceIPv4
  ELSE resourceIPv6

\* getResourceType that takes every resource for a domain
getResourceTypeAlwaysDomain(resource) == resourceDomain

getResourceType(resource) == typeOfIP(ParseIP(resource))

\* the loop of dedup: the first occurrences of rs[i..], given those seen
RECURSIVE dedupFrom(_, _, _)
dedupFrom(rs, i, seen) ==
  IF i > Len(rs) THEN <<>>
  ELSE IF rs[i] \in seen THEN dedupFrom(rs, i + 1, seen)
  ELSE <<rs[i]>> \o dedupFrom(rs, i + 1, seen \cup {rs[i]})

\* dedup that keeps the duplicates
dedupKeepsAll(rs) == rs

\* dedup that keeps the last occurrence of each string instead of the first
dedupKeepsLast(rs) ==
  LET keep == {i \in DOMAIN rs : \A j \in DOMAIN rs : j > i => rs[j] # rs[i]}
  IN [k \in 1..Cardinality(keep) |->
        rs[CHOOSE i \in keep : Cardinality({j \in keep : j <= i}) = k]]

\* dedup that drops only the first repeated string it meets
dedupDropsOne(rs) ==
  LET dups == {i \in DOMAIN rs : \E j \in 1..(i - 1) : rs[j] = rs[i]}
  IN IF dups = {} THEN rs
     ELSE LET d == CHOOSE i \in dups : \A j \in dups : i <= j
          IN [k \in 1..(Len(rs) - 1) |-> IF k < d THEN rs[k] ELSE rs[k + 1]]

\* dedup(ctx, resources) []string
dedup(rs) ==
  IF Len(rs) < 2 THEN rs ELSE dedupFrom(rs, 1, {})

\* getErrorCode(body) (string, error). A response body is modelled after
\* tokenising: kind "empty" (no bytes), "garbage" (not JSON), "array", or
\* "object" with its members in order, each [key, val] with key the member's
\* name as a string of characters and val a JSON string
\* [t |-> "string", s |-> ...], a number [t |-> "number"] or null [t |-> "null"].
\* json.Decode fails on an empty or non-JSON body and on a value that does not
\* fit the struct; it matches a member's name with the tag "code" without
\* regard to letter case; a later member so named overrides an earlier one.
RECURSIVE decodeCode(_, _)
decodeCode(members, code) ==
  IF members = <<>> THEN [err |-> FALSE, code |-> code]
  ELSE IF ToLower(Head(members).key) # <<"c", "o", "d", "e">> THEN decodeCode(Tail(members), code)
  ELSE IF Head(members).val.t = "string" THEN decodeCode(Tail(members), Head(members).val.s)
  ELSE IF Head(members).val.t = "null" THEN decodeCode(Tail(members), code)
  ELSE [err |-> TRUE, code |-> ""]

\* getErrorCode without the check for an empty code
getErrorCodeAcceptsEmpty(body) ==
  IF body.kind # "object" THEN [err |-> TRUE, code |-> ""]
  ELSE LET d == decodeCode(body.members, "")
       IN IF d.err THEN [err |-> TRUE, code |-> ""]
          ELSE [err |-> FALSE, code |-> d.code]

getErrorCode(body) ==
  IF body.kind # "object" THEN [err |-> TRUE, code |-> ""]
  ELSE LET d == decodeCode(body.members, "")
       IN IF d.err THEN [err |-> TRUE, code |-> ""]
          ELSE IF d.code = "" THEN [err |-> TRUE, code |-> ""]
          ELSE [err |-> FALSE, code |-> d.code]

\* ------------------------------------------------------------------------
\* Inputs of a run
\* ------------------------------------------------------------------------

\* longest raw resource list handed to SyncResources
MaxRaw == 2

\* longest seed list returned by GetScanSeedsById
MaxSeeds == 2

ScanID == "scan-123"

SeedTag == "seed-tag"

OtherTag == "other-tag"

\* raw resources as the discovery routines may produce them
RawPool ==
  { <<"a", ".", "i", "o">>,                                              \* a.io
    <<"h", "t", "t", "p", "s", ":", "/", "/", "A", ".", "I", "O", " ">>, \* "https://A.IO "
    <<"*", ".", "b", ".", "i", "o", ".">>,                               \* *.b.io.
    <<"0", ":", "0", ":", "0", ":", "0", ":", "0", ":", "0", ":", "0", ":", "1">>,  \* IPv6
    <<"1", ".", "2", ".", "3", ".", "4">>,                               \* IPv4
    <<"n", "o", "t", " ", "a">> }                                        \* not a host

\* raw strings for normalise on its own: trailing dots, upper case, hyphens
NormPool ==
  { <<"a", ".", "i", "o">>,                                    \* a.io
    <<"A", ".", "I", "O", ".">>,                               \* A.IO.
    <<"a", ".", "i", "o", ".", ".">>,                          \* a.io..
    <<".">>,                                                   \* .
    <<".", ".">>,                                              \* ..
    <<"1", ".", "2", ".", "3", ".", "4", ".">>,                \* 1.2.3.4.
    <<":", ":", "1">>,                                         \* ::1
    <<"-", "a", ".", "i", "o">>,                               \* -a.io
    <<"H", "T", "T", "P", ":", "/", "/", "B", ".", "i", "o", ".", "/", "x">>,  \* HTTP://B.io./x
    <<" ", "*", ".", "c", ".", "i", "o", " ">> }               \* " *.c.io "

\* spellings of one host, for three hosts: the host, the bracketed literal (for
\* IPv6), the host in whitespace, after a scheme, in a URL with userinfo, port,
\* path and query, and after a wildcard label
Spellings ==
  [h \in { <<"a", ".", "i", "o">>, <<"1", ".", "2", ".", "3", ".", "4">>, <<":", ":", "1">> } |->
     LET b == IF h = <<":", ":", "1">> THEN <<"[">> \o h \o <<"]">> ELSE h
     IN { h, b,
          <<" ">> \o h \o <<" ", " ">>,
          <<"f", "t", "p", ":", "/", "/">> \o b,
          <<"h", "t", "t", "p", "s", ":", "/", "/", "u", ":", "p", "@">> \o b
             \o <<":", "8", "4", "4", "3", "/", "x", "?", "q", "=", "1">>,
          <<"*", ".">> \o h }]

\* longest list handed to normalise on its own
MaxNormLen == 2

\* names of the seeds the inventory may hold
SeedNames ==
  { <<"a", ".", "i", "o">>, <<"c", ".", "i", "o">>, <<":", ":", "1">> }

TagLists == { <<SeedTag>>, <<OtherTag>> }

SeqsUpTo(S, n) == UNION {[1..k -> S] : k \in 0..n}

\* the seed lists of the inventory: the seed at place i has id i
SeedLists ==
  { [i \in 1..Len(l) |-> [Name |-> l[i][1], Tags |-> l[i][2], Id |-> i]] :
      l \in SeqsUpTo(SeedNames \X TagLists, MaxSeeds) }

\* errors the API client returns
FetchError == "fetch failed"

AddError == "add failed"

RemoveError == "remove failed"

http_StatusBadRequest == 400

NilResp == [nil |-> TRUE]

NilBody == [kind |-> "nil"]

BodyCode == [kind |-> "object", members |-> <<[key |-> <<"c", "o", "d", "e">>, val |-> [t |-> "string", s |-> "ERR123"]]>>]

BodyNoCode == [kind |-> "object", members |-> <<>>]

BodyGarbage == [kind |-> "garbage"]

\* the responses that come with a failed AddScanSeedById
AddFailures ==
  { NilResp,
    [nil |-> FALSE, StatusCode |-> http_StatusBadRequest, Body |-> BodyCode],
    [nil |-> FALSE, StatusCode |-> http_StatusBadRequest, Body |-> BodyNoCode],
    [nil |-> FALSE, StatusCode |-> http_StatusBadRequest, Body |-> NilBody],
    [nil |-> FALSE, StatusCode |-> http_StatusBadRequest, Body |-> BodyGarbage],
    [nil |-> FALSE, StatusCode |-> 500, Body |-> BodyCode] }

\* normaliseResource and getResourceType on the strings of the pools, each
\* computed once
NormalisedPool ==
  [r \in RawPool \cup NormPool \cup UNION {Spellings[h] : h \in DOMAIN Spellings} |->
     normaliseResource(r)]

\* normaliseResource on the values it returned for the pools: what the next
\* run makes of a name written by this one
NormalisedValues ==
  [v \in {NormalisedPool[r].value : r \in DOMAIN NormalisedPool} |-> normaliseResource(v)]

Normalised(r) == IF r \in DOMAIN NormalisedPool THEN NormalisedPool[r] ELSE NormalisedValues[r]

PoolValues == {NormalisedPool[r].value : r \in RawPool} \cup SeedNames

TypeOfPool == [v \in PoolValues |-> getResourceType(v)]

ResourceType(v) == TypeOfPool[v]

\* normalise that gives up at the first string that does not normalise
RECURSIVE normaliseStopsAtInvalid(_)
normaliseStopsAtInvalid(rs) ==
  IF Len(rs) = 0 THEN <<>>
  ELSE IF ~Normalised(Head(rs)).ok THEN <<>>
  ELSE <<Normalised(Head(rs)).value>> \o normaliseStopsAtInvalid(Tail(rs))

\* normalise(ctx, resources) []string: the values of the rs that normalise
RECURSIVE normalise(_)
normalise(rs) ==
  IF Len(rs) = 0 THEN <<>>
  ELSE (IF Normalised(Head(rs)).ok
        THEN <<Normalised(Head(rs)).value>> ELSE <<>>)
       \o normalise(Tail(rs))

\* ------------------------------------------------------------------------
\* Connector.SyncResources as a state machine: one step per API call or
\* loop iteration
\* ------------------------------------------------------------------------

VARIABLES
  conn,              \* the Connector: scanID, seedTag, deleteStale
  rawResources,            \* the resources argument of SyncResources
  seeds,          \* what GetScanSeedsById returns when it succeeds
  pc,             \* "start", "add" (create loop), "delete" (delete loop), "done"
  resources,      \* the working list
  existingSeeds,  \* the map name -> seed of the run
  idx,            \* place of the create loop in resources
  pending,        \* keys of existingSeeds the delete loop has yet to visit
  calls,          \* the API calls made, in order
  result,         \* the return value of SyncResources, then of the program
  cloud,          \* the resources that exist at the cloud provider
  disc,           \* AWSProvider.GetResources: the configuration and the place in its loops
  respBody,       \* the body handed to getErrorCode when it is run on its own
  keys            \* core.Run: what GetAPIKey and LookupEnv returned, apiKey, the ASM client

vars == <<conn, rawResources, seeds, pc, resources, existingSeeds, idx, pending, calls, result, cloud, disc, respBody, keys>>

\* core.Run has not asked for the API key: GetAPIKey not called, API_KEY not
\* looked up, no ASM client
IdleKeys ==
  [provider |-> [err |-> "not called", key |-> <<>>],
   env |-> [read |-> FALSE, set |-> FALSE, val |-> <<>>],
   apiKey |-> <<>>,
   sdk |-> [created |-> FALSE, key |-> <<>>]]

\* no discovery is under way: SyncResources is called with a list as it is.
\* region is the region of the wrapper in use, skipped the accounts whose role
\* could not be assumed, queried the service calls made (account, service,
\* region), warned whether the failure of a service call was logged
IdleDisc ==
  [mode |-> "none", accounts |-> <<>>, acct |-> 0, svc |-> 0, reg |-> 0, err |-> "nil",
   region |-> "eu-west-1", skipped |-> {}, queried |-> {}, warned |-> FALSE]

NoResult == [kind |-> "none"]

NilError == [kind |-> "nil"]

\* fmt.Errorf with %w: the message, the resource named in it and the wrapped error
WrapError(msg, resource, err) == [kind |-> "error", msg |-> msg, resource |-> resource, wraps |-> err]

EmptyMap == [n \in {} |-> 0]

\* NewConnector
Init ==
  /\ conn \in [scanID : {ScanID}, seedTag : {SeedTag}, deleteStale : BOOLEAN]
  /\ rawResources \in SeqsUpTo(RawPool, MaxRaw)
  /\ seeds \in SeedLists
  /\ pc = "start"
  /\ resources = <<>>
  /\ existingSeeds = EmptyMap
  /\ idx = 0
  /\ pending = {}
  /\ calls = <<>>
  /\ result = NoResult
  /\ cloud = {}
  /\ disc = IdleDisc
  /\ respBody = NilBody
  /\ keys = IdleKeys

\* the working list in the reverse order
WorkingListReversed(r) ==
  LET w == dedup(normalise(dedup(r)))
  IN [k \in 1..Len(w) |-> w[Len(w) + 1 - k]]

\* lines 67-74: dedup, normalise, dedup
WorkingList(r) == dedup(normalise(dedup(r)))

\* getSeeds that misses the last seed of the list
byNameDropsLast(list) ==
  [n \in {list[i].Name : i \in 1..(Len(list) - 1)} |->
     list[CHOOSE i \in 1..(Len(list) - 1) :
            list[i].Name = n /\ \A j \in 1..(Len(list) - 1) : list[j].Name = n => j <= i]]

\* getSeeds, lines 162-168: a later seed of the same name replaces an earlier one
byName(list) ==
  [n \in {list[i].Name : i \in DOMAIN list} |->
     list[CHOOSE i \in DOMAIN list :
            list[i].Name = n /\ \A j \in DOMAIN list : list[j].Name = n => j <= i]]

\* a fetch error that is ignored: the run goes on with an empty map
GetSeedsErrIgnored ==
  /\ pc = "start"
  /\ resources' = WorkingList(rawResources)
  /\ calls' = Append(calls, [op |-> "GetScanSeedsById", scanID |-> conn.scanID, err |-> FetchError])
  /\ existingSeeds' = EmptyMap
  /\ idx' = 1
  /\ pc' = "add"
  /\ UNCHANGED <<keys, respBody, cloud, disc, conn, rawResources, seeds, pending, result>>

\* lines 67-80 with a failing GetScanSeedsById
GetSeedsErr ==
  /\ pc = "start"
  /\ resources' = WorkingList(rawResources)
  /\ calls' = Append(calls, [op |-> "GetScanSeedsById", scanID |-> conn.scanID, err |-> FetchError])
  /\ result' = WrapError("failed to get scan existing seeds", conn.scanID, FetchError)
  /\ pc' = "done"
  /\ UNCHANGED <<keys, respBody, cloud, disc, conn, rawResources, seeds, existingSeeds, idx, pending>>

\* lines 67-80 with GetScanSeedsById returning seeds
GetSeedsOk ==
  /\ pc = "start"
  /\ resources' = WorkingList(rawResources)
  /\ calls' = Append(calls, [op |-> "GetScanSeedsById", scanID |-> conn.scanID, err |-> "nil"])
  /\ existingSeeds' = byName(seeds)
  /\ idx' = 1
  /\ pc' = "add"
  /\ UNCHANGED <<keys, respBody, cloud, disc, conn, rawResources, seeds, pending, result>>

InAddLoop == pc = "add" /\ idx <= Len(resources)

\* the seed exists already, and its entry stays in the map
SeedExistsKeepsEntry ==
  /\ InAddLoop
  /\ resources[idx] \in DOMAIN existingSeeds
  /\ idx' = idx + 1
  /\ UNCHANGED <<keys, respBody, cloud, disc, conn, rawResources, seeds, pc, resources, existingSeeds, pending, calls, result>>

\* lines 87-91: the seed exists already
SeedExists ==
  /\ InAddLoop
  /\ resources[idx] \in DOMAIN existingSeeds
  /\ existingSeeds' = [n \in DOMAIN existingSeeds \ {resources[idx]} |-> existingSeeds[n]]
  /\ idx' = idx + 1
  /\ UNCHANGED <<keys, respBody, cloud, disc, conn, rawResources, seeds, pc, resources, pending, calls, result>>

\* lines 93-97: IPv6 cannot be added
SkipIPv6 ==
  /\ InAddLoop
  /\ resources[idx] \notin DOMAIN existingSeeds
  /\ ResourceType(resources[idx]) = resourceIPv6
  /\ idx' = idx + 1
  /\ UNCHANGED <<keys, respBody, cloud, disc, conn, rawResources, seeds, pc, resources, existingSeeds, pending, calls, result>>

AddCall(resource, err, resp) ==
  [op |-> "AddScanSeedById", scanID |-> conn.scanID,
   req |-> [Name |-> resource, Type |-> ResourceType(resource), Tags |-> <<conn.seedTag>>],
   err |-> err, resp |-> resp]

\* the create branch without the IPv6 check
CanAddAnyType ==
  /\ InAddLoop
  /\ resources[idx] \notin DOMAIN existingSeeds

\* lines 87-98: the resource is neither a seed already nor IPv6
CanAdd ==
  /\ InAddLoop
  /\ resources[idx] \notin DOMAIN existingSeeds
  /\ ResourceType(resources[idx]) # resourceIPv6

\* AddScanSeedById succeeds and the new seed is entered into existingSeeds
AddSeedOkIndexesSeed ==
  /\ CanAdd
  /\ calls' = Append(calls, AddCall(resources[idx], "nil", NilResp))
  /\ existingSeeds' =
       [n \in DOMAIN existingSeeds \cup {resources[idx]} |->
          IF n = resources[idx]
          THEN [Name |-> n, Tags |-> <<conn.seedTag>>, Id |-> 0]
          ELSE existingSeeds[n]]
  /\ idx' = idx + 1
  /\ UNCHANGED <<keys, respBody, cloud, disc, conn, rawResources, seeds, pc, resources, pending, result>>

\* lines 99-110: AddScanSeedById succeeds
AddSeedOk ==
  /\ CanAdd
  /\ calls' = Append(calls, AddCall(resources[idx], "nil", NilResp))
  /\ idx' = idx + 1
  /\ UNCHANGED <<keys, respBody, cloud, disc, conn, rawResources, seeds, pc, resources, existingSeeds, pending, result>>

\* no failure is recoverable
RecoverableNever(resp) == FALSE

\* the status code is not looked at
RecoverableAnyStatus(resp) ==
  /\ ~resp.nil
  /\ resp.Body # NilBody
  /\ ~getErrorCode(resp.Body).err

\* line 113 and 114-115: the failure is a known recoverable one
Recoverable(resp) ==
  /\ ~resp.nil
  /\ resp.StatusCode = http_StatusBadRequest
  /\ resp.Body # NilBody
  /\ ~getErrorCode(resp.Body).err

\* AddScanSeedById fails and a fatal failure still lets the delete loop run
AddSeedFailsThenDeletes ==
  /\ CanAdd
  /\ \E resp \in AddFailures :
       /\ calls' = Append(calls, AddCall(resources[idx], AddError, resp))
       /\ IF Recoverable(resp)
          THEN /\ idx' = idx + 1
               /\ UNCHANGED <<keys, pc, result, pending>>
          ELSE /\ result' = WrapError("failed to add seed", resources[idx], AddError)
               /\ pc' = "delete"
               /\ pending' = DOMAIN existingSeeds
               /\ UNCHANGED idx
  /\ UNCHANGED <<keys, respBody, cloud, disc, conn, rawResources, seeds, resources, existingSeeds>>

\* lines 111-128: AddScanSeedById fails
AddSeedFails ==
  /\ CanAdd
  /\ \E resp \in AddFailures :
       /\ calls' = Append(calls, AddCall(resources[idx], AddError, resp))
       /\ IF Recoverable(resp)
          THEN /\ idx' = idx + 1
               /\ UNCHANGED <<keys, pc, result>>
          ELSE /\ result' = WrapError("failed to add seed", resources[idx], AddError)
               /\ pc' = "done"
               /\ UNCHANGED idx
  /\ UNCHANGED <<keys, respBody, cloud, disc, conn, rawResources, seeds, resources, existingSeeds, pending>>

\* after the create loop, with the deleteStale flag not looked at
EndAddAlwaysDeletes ==
  /\ pc = "add"
  /\ idx > Len(resources)
  /\ pending' = DOMAIN existingSeeds
  /\ pc' = "delete"
  /\ UNCHANGED <<keys, respBody, cloud, disc, conn, rawResources, seeds, resources, existingSeeds, idx, calls, result>>

\* lines 131-137: after the create loop
EndAdd ==
  /\ pc = "add"
  /\ idx > Len(resources)
  /\ IF ~conn.deleteStale
     THEN /\ result' = NilError
          /\ pc' = "done"
          /\ UNCHANGED pending
     ELSE /\ pending' = DOMAIN existingSeeds
          /\ pc' = "delete"
          /\ UNCHANGED result
  /\ UNCHANGED <<keys, respBody, cloud, disc, conn, rawResources, seeds, resources, existingSeeds, idx, calls>>

\* any tag counts
HasTagAny(seed, tag) == seed.Tags # <<>>

\* slices.Contains(seed.Tags, conn.seedTag)
HasTag(seed, tag) == \E i \in DOMAIN seed.Tags : seed.Tags[i] = tag

\* lines 140-144: a seed without the tag is left alone. The range over the
\* Go map visits the remaining entries in an order the runtime picks.
SkipUntagged ==
  /\ pc = "delete"
  /\ \E n \in pending :
       /\ ~HasTag(existingSeeds[n], conn.seedTag)
       /\ pending' = pending \ {n}
  /\ UNCHANGED <<keys, respBody, cloud, disc, conn, rawResources, seeds, pc, resources, existingSeeds, idx, calls, result>>

\* RemoveScanSeedById whose error ends the run
RemoveSeedAborts ==
  /\ pc = "delete"
  /\ \E n \in pending, err \in {"nil", RemoveError} :
       /\ HasTag(existingSeeds[n], conn.seedTag)
       /\ calls' = Append(calls, [op |-> "RemoveScanSeedById", scanID |-> conn.scanID,
                                  id |-> existingSeeds[n].Id, err |-> err])
       /\ IF err = "nil"
          THEN pending' = pending \ {n} /\ UNCHANGED <<keys, pc, result>>
          ELSE /\ result' = WrapError("failed to remove stale seed", n, err)
               /\ pc' = "done"
               /\ UNCHANGED pending
  /\ UNCHANGED <<keys, respBody, cloud, disc, conn, rawResources, seeds, resources, existingSeeds, idx>>

\* lines 146-150: RemoveScanSeedById, whose error is only logged
RemoveSeed ==
  /\ pc = "delete"
  /\ \E n \in pending, err \in {"nil", RemoveError} :
       /\ HasTag(existingSeeds[n], conn.seedTag)
       /\ calls' = Append(calls, [op |-> "RemoveScanSeedById", scanID |-> conn.scanID,
                                  id |-> existingSeeds[n].Id, err |-> err])
       /\ pending' = pending \ {n}
  /\ UNCHANGED <<keys, respBody, cloud, disc, conn, rawResources, seeds, pc, resources, existingSeeds, idx, result>>

\* line 153
EndDelete ==
  /\ pc = "delete"
  /\ pending = {}
  /\ result' = NilError
  /\ pc' = "done"
  /\ UNCHANGED <<keys, respBody, cloud, disc, conn, rawResources, seeds, resources, existingSeeds, idx, pending, calls>>

Next ==
  \/ GetSeedsErr
  \/ GetSeedsOk
  \/ SeedExists
  \/ SkipIPv6
  \/ AddSeedOk
  \/ AddSeedFails
  \/ EndAdd
  \/ SkipUntagged
  \/ RemoveSeed
  \/ EndDelete

Spec == Init /\ [][Next]_vars

\* ------------------------------------------------------------------------
\* What a run did, read off the call log
\* ------------------------------------------------------------------------

AddIdx == {i \in DOMAIN calls : calls[i].op = "AddScanSeedById"}

RemoveIdx == {i \in DOMAIN calls : calls[i].op = "RemoveScanSeedById"}

FetchIdx == {i \in DOMAIN calls : calls[i].op = "GetScanSeedsById"}

FetchFailed == \E i \in FetchIdx : calls[i].err # "nil"

FetchSucceeded == \E i \in FetchIdx : calls[i].err = "nil"

SnapshotNames == {seeds[j].Name : j \in DOMAIN seeds}

WorkingSet == {resources[k] : k \in DOMAIN resources}

TagListHas(tags, t) == \E k \in DOMAIN tags : tags[k] = t

\* the seeds of the snapshot that are tagged and whose name is not in the working list
TaggedStale == {j \in DOMAIN seeds : TagListHas(seeds[j].Tags, SeedTag) /\ seeds[j].Name \notin WorkingSet}

\* the create loop ran to its end
CreatePhaseFinished == pc \in {"add", "delete", "done"} /\ idx = Len(resources) + 1

\* a failed create call that came with status 400 and a body carrying a code
CodedBadRequest(call) ==
  /\ call.err # "nil"
  /\ ~call.resp.nil
  /\ call.resp.StatusCode = 400
  /\ call.resp.Body = BodyCode

\* the values of the pools that are IPv6 addresses
IPv6Values == {v \in PoolValues : ParseIP(v) # NilIP /\ ~IsV4(ParseIP(v))}

\* the distinct normalised values of the raw input
RawValues ==
  {NormalisedPool[rawResources[k]].value :
     k \in {m \in DOMAIN rawResources : NormalisedPool[rawResources[m]].ok}}

\* ------------------------------------------------------------------------
\* Claims
\* ------------------------------------------------------------------------

\* C1: ownership safety. Every delete call (RemoveScanSeedById) names the id of
\* a fetched seed whose tag list contains the configured seed tag; a fetched
\* seed without that tag never receives a delete call.
C1_OwnershipSafety ==
  /\ \A i \in RemoveIdx :
       \E j \in DOMAIN seeds :
         seeds[j].Id = calls[i].id /\ TagListHas(seeds[j].Tags, conn.seedTag)
  /\ \A j \in DOMAIN seeds :
       ~TagListHas(seeds[j].Tags, conn.seedTag) => \A i \in RemoveIdx : calls[i].id # seeds[j].Id

\* a finished run that deleted a seed and left an untagged stale seed alone
C1_Witness ==
  /\ pc = "done"
  /\ RemoveIdx # {}
  /\ \E j \in DOMAIN seeds :
       seeds[j].Name \notin WorkingSet /\ ~TagListHas(seeds[j].Tags, conn.seedTag)

\* C2: kept seeds are never deleted. No delete call is issued for a fetched
\* seed whose name is a value of the final working list; delete calls go only
\* to seeds of the snapshot whose name is absent from that list.
C2_KeptSeedsNeverDeleted ==
  \A i \in RemoveIdx :
    /\ \E j \in DOMAIN seeds : seeds[j].Id = calls[i].id
    /\ \A j \in DOMAIN seeds : seeds[j].Id = calls[i].id => seeds[j].Name \notin WorkingSet

\* a finished run with stale deletion on that kept a tagged seed and deleted another
C2_Witness ==
  /\ pc = "done"
  /\ conn.deleteStale
  /\ RemoveIdx # {}
  /\ \E j \in DOMAIN seeds :
       seeds[j].Name \in WorkingSet /\ TagListHas(seeds[j].Tags, conn.seedTag)

\* C3: with stale deletion disabled no delete call is ever issued, and the run
\* returns success once the create loop has run to its end; the entries that
\* remain in the index are left alone.
C3_NoDeleteWhenDisabled ==
  ~conn.deleteStale =>
    /\ RemoveIdx = {}
    /\ pc # "delete"
    /\ (pc = "done" /\ CreatePhaseFinished) => result = NilError

\* a finished run without stale deletion that left a tagged stale seed in the index
C3_Witness ==
  /\ pc = "done"
  /\ ~conn.deleteStale
  /\ result = NilError
  /\ TaggedStale # {}
  /\ \E n \in DOMAIN existingSeeds : TagListHas(existingSeeds[n].Tags, conn.seedTag)

\* C4: when GetScanSeedsById fails, SyncResources returns an error that wraps
\* the fetch error, and the run issues no create call and no delete call.
C4_FetchErrorIsFatal ==
  FetchFailed =>
    /\ pc = "done"
    /\ result.kind = "error"
    /\ result.wraps = FetchError
    /\ AddIdx = {}
    /\ RemoveIdx = {}

\* a failed fetch in a run that had resources to create and stale seeds to delete
C4_Witness ==
  /\ FetchFailed
  /\ conn.deleteStale
  /\ resources # <<>>
  /\ seeds # <<>>

\* C5: a create call that fails with status 400 and a body carrying a non-empty
\* code is recoverable: the resource is skipped, the loop goes on to the later
\* resources, the deletion phase runs when enabled, and the run returns success
\* when no other create failure is fatal.
C5_CodedBadRequestIsRecoverable ==
  \A i \in AddIdx :
    CodedBadRequest(calls[i]) =>
      /\ \E k \in DOMAIN resources : resources[k] = calls[i].req.Name /\ idx > k
      /\ ~(result.kind = "error" /\ result.resource = calls[i].req.Name)
      /\ (pc = "done" /\ \A m \in AddIdx : calls[m].err # "nil" => CodedBadRequest(calls[m]))
           => /\ result = NilError
              /\ idx = Len(resources) + 1
              /\ conn.deleteStale =>
                   \A n \in DOMAIN existingSeeds :
                     TagListHas(existingSeeds[n].Tags, conn.seedTag)
                       => \E r \in RemoveIdx : calls[r].id = existingSeeds[n].Id

\* a finished, successful run in which the first create was a coded 400, a later
\* resource was created and a stale seed was deleted
C5_Witness ==
  /\ pc = "done"
  /\ result = NilError
  /\ \E i, m \in AddIdx : i < m /\ CodedBadRequest(calls[i]) /\ calls[m].err = "nil"
  /\ RemoveIdx # {}

\* C6: any other create failure is fatal. When a create call returns an error
\* and the response is nil, or its status is not 400, or its body is nil or does
\* not decode to a non-empty code, the run stops there: that call is the last
\* call, and SyncResources returns an error that wraps the create error and
\* names the resource.
C6_OtherCreateFailureIsFatal ==
  \A i \in AddIdx :
    (calls[i].err # "nil" /\ ~CodedBadRequest(calls[i])) =>
      /\ i = Len(calls)
      /\ pc = "done"
      /\ result.kind = "error"
      /\ result.wraps = calls[i].err
      /\ result.resource = calls[i].req.Name

\* a fatal create failure with status 500 although the body carries a code, with
\* a later resource still to come
C6_Witness ==
  /\ pc = "done"
  /\ result.kind = "error"
  /\ idx < Len(resources)
  /\ \E i \in AddIdx :
       /\ calls[i].err # "nil"
       /\ ~calls[i].resp.nil
       /\ calls[i].resp.StatusCode = 500
       /\ calls[i].resp.Body = BodyCode

\* C7: deletion is best-effort. A failing delete call never makes the run
\* return an error; no seed gets more than one delete call; and when the run is
\* done every tagged entry that remained in the index has got its delete call
\* and the result is success, even if every delete call failed.
C7_DeletionIsBestEffort ==
  (\E i \in RemoveIdx : calls[i].err # "nil") =>
    /\ result.kind # "error"
    /\ \A i, m \in RemoveIdx : calls[i].id = calls[m].id => i = m
    /\ pc = "done" =>
         /\ result = NilError
         /\ \A n \in DOMAIN existingSeeds :
              TagListHas(existingSeeds[n].Tags, conn.seedTag)
                => \E r \in RemoveIdx : calls[r].id = existingSeeds[n].Id

\* a finished run whose two delete calls both failed
C7_Witness ==
  /\ pc = "done"
  /\ Cardinality(RemoveIdx) >= 2
  /\ \A i \in RemoveIdx : calls[i].err # "nil"

\* C8: IPv6 resources are never created. No create call has a name that is an
\* IPv6 address or the type "IPv6"; an IPv6 item of the working list that is
\* not in the snapshot is skipped and the run does not fail because of it.
C8_IPv6NeverCreated ==
  /\ \A i \in AddIdx : calls[i].req.Type # "IPv6" /\ calls[i].req.Name \notin IPv6Values
  /\ \A k \in DOMAIN resources :
       (resources[k] \in IPv6Values /\ resources[k] \notin SnapshotNames) =>
         /\ ~(result.kind = "error" /\ FetchSucceeded /\ result.resource = resources[k])
         /\ (pc = "add" /\ idx = k) => ENABLED SkipIPv6

\* a successful run that went past an IPv6 item absent from the snapshot and
\* created the resource after it
C8_Witness ==
  /\ pc = "done"
  /\ result = NilError
  /\ \E k \in DOMAIN resources :
       /\ resources[k] \in IPv6Values
       /\ resources[k] \notin SnapshotNames
       /\ k < Len(resources)
  /\ AddIdx # {}

\* C9: idempotence. When the working list holds exactly the names of the
\* fetched seeds, the run issues no create call and no delete call, with stale
\* deletion enabled or not.
C9_Idempotence ==
  (FetchSucceeded /\ WorkingSet = SnapshotNames) => (AddIdx = {} /\ RemoveIdx = {})

\* a finished run with stale deletion on, over two tagged seeds that are both in
\* the working list
C9_Witness ==
  /\ pc = "done"
  /\ conn.deleteStale
  /\ FetchSucceeded
  /\ WorkingSet = SnapshotNames
  /\ Cardinality(SnapshotNames) = 2
  /\ \A j \in DOMAIN seeds : TagListHas(seeds[j].Tags, conn.seedTag)

\* C10: exact create set. Once the create loop has run to its end (the fetch
\* succeeded and no create failed fatally), the names of the create calls are
\* exactly the distinct normalised values of the raw input that are neither
\* names of the snapshot nor IPv6, and no name is created twice.
C10_ExactCreateSet ==
  CreatePhaseFinished =>
    /\ {calls[i].req.Name : i \in AddIdx} = (RawValues \ SnapshotNames) \ IPv6Values
    /\ \A i, m \in AddIdx : calls[i].req.Name = calls[m].req.Name => i = m

\* a finished create loop over two raw strings with the same normalised value,
\* created once
C10_Witness ==
  /\ CreatePhaseFinished
  /\ Len(rawResources) = 2
  /\ rawResources[1] # rawResources[2]
  /\ Cardinality(RawValues) = 1
  /\ Cardinality(AddIdx) = 1

\* the values of the pools that are IPv4 addresses, and those that are no IP address
IPv4Values == {v \in PoolValues : ParseIP(v) # NilIP /\ IsV4(ParseIP(v))}

NotIPValues == {v \in PoolValues : ParseIP(v) = NilIP}

\* C11: every create call carries the configured scan id, the tag list
\* [configured seed tag], a name that is a value of the working list, and a
\* type that is "Domain" or "IPv4": "Domain" when the name is no IP address,
\* "IPv4" when it is an IPv4 address.
C11_CreateRequestFields ==
  \A i \in AddIdx :
    /\ calls[i].scanID = conn.scanID
    /\ calls[i].req.Tags = <<conn.seedTag>>
    /\ calls[i].req.Name \in WorkingSet
    /\ calls[i].req.Type \in {"Domain", "IPv4"}
    /\ calls[i].req.Name \in NotIPValues => calls[i].req.Type = "Domain"
    /\ calls[i].req.Name \in IPv4Values => calls[i].req.Type = "IPv4"

\* a run that created a domain and an IPv4 address
C11_Witness ==
  \E i, m \in AddIdx :
    /\ calls[i].req.Name \in NotIPValues /\ calls[i].req.Type = "Domain"
    /\ calls[m].req.Name \in IPv4Values /\ calls[m].req.Type = "IPv4"

\* ------------------------------------------------------------------------
\* dedup on its own: the function applied to a list and again to its result
\* ------------------------------------------------------------------------

\* longest list handed to dedup
MaxDedupLen == 4

\* how often dedup is applied in a row
MaxDedupCalls == 2

\* strings that differ, two of them in case only
DedupPool == {<<"a">>, <<"A">>, <<"b">>}

DedupInit ==
  /\ conn = [scanID |-> ScanID, seedTag |-> SeedTag, deleteStale |-> FALSE]
  /\ rawResources \in SeqsUpTo(DedupPool, MaxDedupLen)
  /\ resources = rawResources
  /\ seeds = <<>>
  /\ pc = "dedup"
  /\ existingSeeds = EmptyMap
  /\ idx = 0
  /\ pending = {}
  /\ calls = <<>>
  /\ result = NoResult
  /\ cloud = {}
  /\ disc = IdleDisc
  /\ respBody = NilBody
  /\ keys = IdleKeys

\* resources = dedup(ctx, resources); idx counts the applications
DedupStep ==
  /\ pc = "dedup"
  /\ idx < MaxDedupCalls
  /\ resources' = dedup(resources)
  /\ idx' = idx + 1
  /\ UNCHANGED <<keys, respBody, cloud, disc, conn, rawResources, seeds, pc, existingSeeds, pending, calls, result>>

DedupSpec == DedupInit /\ [][DedupStep]_vars

\* the place of the first occurrence of e in x
FirstPos(x, e) == CHOOSE k \in DOMAIN x : x[k] = e /\ \A m \in 1..(k - 1) : x[m] # e

\* C12: dedup(x) has no repeated element, has exactly the distinct elements of
\* x, and lists them in the order of their first occurrence in x, strings being
\* compared exactly (case-sensitively); a list of length 0 or 1 comes back
\* unchanged.
C12_DedupResult ==
  (pc = "dedup" /\ idx = 1) =>
    /\ \A i, j \in DOMAIN resources : resources[i] = resources[j] => i = j
    /\ {resources[i] : i \in DOMAIN resources} = {rawResources[k] : k \in DOMAIN rawResources}
    /\ \A i, j \in DOMAIN resources :
         i < j => FirstPos(rawResources, resources[i]) < FirstPos(rawResources, resources[j])
    /\ Len(rawResources) < 2 => resources = rawResources

\* dedup applied to a list with a repeat that is not next to its first
\* occurrence, and with two strings that differ in case only
C12_Witness ==
  /\ pc = "dedup"
  /\ idx = 1
  /\ rawResources = << <<"b">>, <<"a">>, <<"b">>, <<"A">> >>
  /\ resources = << <<"b">>, <<"a">>, <<"A">> >>

\* C13: dedup is idempotent: dedup applied to a result of dedup returns it
\* unchanged.
C13_DedupIdempotent ==
  [][(pc = "dedup" /\ idx >= 1) => resources' = resources]_vars

\* dedup applied a second time to a result that is shorter than the input
C13_Witness ==
  /\ pc = "dedup"
  /\ idx = 2
  /\ Len(rawResources) = 4
  /\ Len(resources) = 2

\* the stages of SyncResources in the order of the code
StageOf(p) == CASE p = "start" -> 0 [] p = "add" -> 1 [] p = "delete" -> 2 [] p = "done" -> 3

\* the place in the raw input of the first string that normalises to v
FirstRawPos(v) ==
  CHOOSE k \in DOMAIN rawResources :
    /\ NormalisedPool[rawResources[k]].ok /\ NormalisedPool[rawResources[k]].value = v
    /\ \A m \in 1..(k - 1) :
         ~(NormalisedPool[rawResources[m]].ok /\ NormalisedPool[rawResources[m]].value = v)

\* the call log of a run in pipeline order
PipelineOrdered ==
  /\ FetchIdx \subseteq {1}
  /\ calls # <<>> => calls[1].op = "GetScanSeedsById"
  /\ \A i \in AddIdx, r \in RemoveIdx : i < r
  /\ \A i, m \in AddIdx :
       i < m => FirstPos(resources, calls[i].req.Name) < FirstPos(resources, calls[m].req.Name)
  /\ FetchSucceeded =>
       \A i, j \in DOMAIN resources :
         i < j => FirstRawPos(resources[i]) < FirstRawPos(resources[j])

\* C14: pipeline order within one run. The seed snapshot is fetched exactly
\* once, before any create or delete call; create calls are issued in
\* working-list order, which is the first-occurrence order of the normalised
\* values in the raw input; every create call precedes every delete call; and
\* the run never goes back to an earlier stage.
C14_PipelineOrder ==
  /\ []PipelineOrdered
  /\ [][StageOf(pc') >= StageOf(pc)]_vars

\* a finished run that fetched, created two seeds in the order of the raw input
\* and then deleted a seed
C14_Witness ==
  /\ pc = "done"
  /\ Cardinality(FetchIdx) = 1
  /\ Cardinality(AddIdx) = 2
  /\ RemoveIdx # {}
  /\ Len(rawResources) = 2
  /\ \A i \in AddIdx : calls[i].req.Name = NormalisedPool[rawResources[i - 1]].value

\* the raw input holds a string that does not normalise
HasInvalidRaw == \E k \in DOMAIN rawResources : ~NormalisedPool[rawResources[k]].ok

\* C15: a raw resource that cannot be normalised is left out of the working
\* list and never makes SyncResources return an error or stop: the other raw
\* resources are all in the working list, an error comes only from the fetch or
\* from a create call, and a run that returns success has reconciled every
\* value of the working list.
C15_NormaliseFailureIsSoft ==
  (HasInvalidRaw /\ pc # "start") =>
    /\ WorkingSet = RawValues
    /\ result.kind = "error" =>
         \/ FetchFailed
         \/ \E i \in AddIdx : i = Len(calls) /\ calls[i].err # "nil"
    /\ (pc = "done" /\ result = NilError) =>
         \A v \in WorkingSet :
           \/ v \in SnapshotNames
           \/ v \in IPv6Values
           \/ \E i \in AddIdx : calls[i].req.Name = v

\* a successful run whose first raw resource does not normalise and whose second
\* one was created
C15_Witness ==
  /\ pc = "done"
  /\ result = NilError
  /\ Len(rawResources) = 2
  /\ ~NormalisedPool[rawResources[1]].ok
  /\ \E i \in AddIdx :
       calls[i].err = "nil" /\ calls[i].req.Name = NormalisedPool[rawResources[2]].value

\* ------------------------------------------------------------------------
\* The programs around SyncResources: core.Run from GetAPIKey on, and
\* the manual sync command
\* ------------------------------------------------------------------------

\* longest seed list of the inventory in a run of the whole program
MaxRunSeeds == 1

\* the accounts of the organisation; the first one is the connector's own
Accounts == <<"111111111111", "222222222222">>

\* three of the service checks of getResources, in the order of its table, and
\* those the configuration enables
Services == <<"EC2", "S3", "ACM">>

EnabledServices == {"EC2", "S3"}

\* what GetRegions returns; the first one is the default region of the wrapper
Regions == <<"eu-west-1", "us-east-1">>

\* the resources the provider may hold, one at most per account, service and region
CloudResources ==
  { [account |-> Accounts[1], service |-> "EC2", region |-> Regions[1],
     name |-> <<"1", ".", "2", ".", "3", ".", "4">>],
    [account |-> Accounts[1], service |-> "S3", region |-> Regions[1],
     name |-> <<"0", ":", "0", ":", "0", ":", "0", ":", "0", ":", "0", ":", "0", ":", "1">>],
    [account |-> Accounts[2], service |-> "S3", region |-> Regions[2],
     name |-> <<"a", ".", "i", "o">>] }

RunSeedLists ==
  { [i \in 1..Len(l) |-> [Name |-> l[i][1], Tags |-> l[i][2], Id |-> i]] :
      l \in SeqsUpTo({<<"a", ".", "i", "o">>, <<"c", ".", "i", "o">>} \X TagLists, MaxRunSeeds) }

RunInit ==
  /\ conn \in [scanID : {ScanID}, seedTag : {SeedTag}, deleteStale : BOOLEAN]
  /\ \/ /\ \E m \in {"default", "accounts", "listAll"} :
             disc = [IdleDisc EXCEPT !.mode = m,
                                     !.accounts = IF m = "accounts" THEN Accounts ELSE <<>>]
        /\ cloud \in SUBSET CloudResources
        /\ rawResources = <<>>
     \/ /\ disc = [IdleDisc EXCEPT !.mode = "manual"]
        /\ cloud = {}
        /\ rawResources \in { << <<"a", ".", "i", "o">> >>,
                              << <<"1", ".", "2", ".", "3", ".", "4">> >>,
                              << <<"1", ".", "2", ".", "3", ".", "4", ".">> >> }
  /\ seeds \in RunSeedLists
  /\ pc = IF disc.mode = "manual" THEN "auth" ELSE "apikey"
  /\ resources = <<>>
  /\ existingSeeds = EmptyMap
  /\ idx = 0
  /\ pending = {}
  /\ calls = <<>>
  /\ result = NoResult
  /\ respBody = NilBody
  /\ keys = IF disc.mode = "manual"
            THEN [IdleKeys EXCEPT !.env = [read |-> TRUE, set |-> TRUE, val |-> <<"e">>],
                                  !.apiKey = <<"e">>,
                                  !.sdk = [created |-> TRUE, key |-> <<"e">>]]
            ELSE IdleKeys

\* the program ends with an error before SyncResources is called
RunFails(msg, err) ==
  /\ result' = WrapError(msg, <<>>, err)
  /\ pc' = "exit"

\* GetAPIKey fails, with an error that is not ErrNoAPIKey, and core.Run looks
\* API_KEY up all the same
GetAPIKeyFailsFallsBack ==
  /\ pc = "apikey"
  /\ \E e \in { [read |-> TRUE, set |-> FALSE, val |-> <<>>],
                 [read |-> TRUE, set |-> TRUE, val |-> <<"e">>] } :
       /\ keys' = [keys EXCEPT !.provider = [err |-> "get secret failed", key |-> <<>>],
                               !.env = e,
                               !.apiKey = e.val,
                               !.sdk = IF e.set THEN [created |-> TRUE, key |-> e.val] ELSE @]
       /\ IF e.set
          THEN pc' = "auth" /\ UNCHANGED result
          ELSE RunFails("API key not provided by cloud provider or env API_KEY", "none")
  /\ UNCHANGED <<respBody, cloud, disc, conn, rawResources, seeds, resources, existingSeeds, idx, pending, calls>>

\* core.Run, lines 96-120, and GetAPIKey, line 47: the provider returns the
\* secret, blank or not, and the ASM client is made with it
GetAPIKeyOk ==
  /\ pc = "apikey"
  /\ \E k \in {<<"p">>, <<" ">>} :
       keys' = [keys EXCEPT !.provider = [err |-> "nil", key |-> k],
                            !.apiKey = k,
                            !.sdk = [created |-> TRUE, key |-> k]]
  /\ pc' = "auth"
  /\ UNCHANGED <<respBody, cloud, disc, conn, rawResources, seeds, resources, existingSeeds, idx, pending, calls, result>>

\* core.Run, lines 96-104, and GetAPIKey, line 47: GetSecretString fails
GetAPIKeyFails ==
  /\ pc = "apikey"
  /\ keys' = [keys EXCEPT !.provider = [err |-> "get secret failed", key |-> <<>>]]
  /\ RunFails("failed to get api key", "get secret failed")
  /\ UNCHANGED <<respBody, cloud, disc, conn, rawResources, seeds, resources, existingSeeds, idx, pending, calls>>

\* core.Run, lines 96-120, and GetAPIKey, lines 43-45: no secret is configured,
\* GetAPIKey returns ErrNoAPIKey and API_KEY is looked up; unset or blank it
\* ends the run, otherwise the ASM client is made with its value as it is
GetAPIKeyNoKey ==
  /\ pc = "apikey"
  /\ \E e \in { [read |-> TRUE, set |-> FALSE, val |-> <<>>],
                 [read |-> TRUE, set |-> TRUE, val |-> <<>>],
                 [read |-> TRUE, set |-> TRUE, val |-> <<" ">>],
                 [read |-> TRUE, set |-> TRUE, val |-> <<"e">>] } :
       LET blank == ~e.set \/ TrimSpace(e.val) = <<>>
       IN /\ keys' = [keys EXCEPT !.provider = [err |-> "ErrNoAPIKey", key |-> <<>>],
                                  !.env = e,
                                  !.apiKey = e.val,
                                  !.sdk = IF blank THEN @ ELSE [created |-> TRUE, key |-> e.val]]
          /\ IF blank
             THEN RunFails("API key not provided by cloud provider or env API_KEY", "none")
             ELSE pc' = "auth" /\ UNCHANGED result
  /\ UNCHANGED <<respBody, cloud, disc, conn, rawResources, seeds, resources, existingSeeds, idx, pending, calls>>

\* Authenticate, lines 46-49: GetState fails
GetStateFails ==
  /\ pc = "auth"
  /\ calls' = Append(calls, [op |-> "GetState", err |-> "get state failed", authenticated |-> FALSE])
  /\ RunFails("could not authenticate with Hexiosec ASM connector",
              WrapError("failed to get auth state", <<>>, "get state failed"))
  /\ UNCHANGED <<keys, respBody, cloud, disc, conn, rawResources, seeds, resources, existingSeeds, idx, pending>>

\* the credentials are not valid and Authenticate goes on to GetScanByID
GetStateNotAuthenticatedIgnored ==
  /\ pc = "auth"
  /\ calls' = Append(calls, [op |-> "GetState", err |-> "nil", authenticated |-> FALSE])
  /\ pc' = "authscan"
  /\ UNCHANGED <<keys, respBody, cloud, disc, conn, rawResources, seeds, resources, existingSeeds, idx, pending, result>>

\* Authenticate, lines 51-53: the credentials are not valid
GetStateNotAuthenticated ==
  /\ pc = "auth"
  /\ calls' = Append(calls, [op |-> "GetState", err |-> "nil", authenticated |-> FALSE])
  /\ RunFails("could not authenticate with Hexiosec ASM connector",
              [kind |-> "error", msg |-> "credentials not valid", resource |-> <<>>, wraps |-> "none"])
  /\ UNCHANGED <<keys, respBody, cloud, disc, conn, rawResources, seeds, resources, existingSeeds, idx, pending>>

\* Authenticate, lines 46-53: authenticated
GetStateOk ==
  /\ pc = "auth"
  /\ calls' = Append(calls, [op |-> "GetState", err |-> "nil", authenticated |-> TRUE])
  /\ pc' = "authscan"
  /\ UNCHANGED <<keys, respBody, cloud, disc, conn, rawResources, seeds, resources, existingSeeds, idx, pending, result>>

\* GetScanByID fails and the program goes on all the same
GetScanFailsIgnored ==
  /\ pc = "authscan"
  /\ calls' = Append(calls, [op |-> "GetScanByID", scanID |-> conn.scanID, err |-> "get scan failed"])
  /\ pc' = IF disc.mode = "manual" THEN "start" ELSE "discover"
  /\ UNCHANGED <<keys, respBody, cloud, disc, conn, rawResources, seeds, resources, existingSeeds, idx, pending, result>>

\* Authenticate, lines 55-58: GetScanByID fails
GetScanFails ==
  /\ pc = "authscan"
  /\ calls' = Append(calls, [op |-> "GetScanByID", scanID |-> conn.scanID, err |-> "get scan failed"])
  /\ RunFails("could not authenticate with Hexiosec ASM connector",
              WrapError("failed to check scan exists", conn.scanID, "get scan failed"))
  /\ UNCHANGED <<keys, respBody, cloud, disc, conn, rawResources, seeds, resources, existingSeeds, idx, pending>>

\* Authenticate returns nil, line 60; core.Run goes on to GetResources, the
\* manual command to SyncResources
GetScanOk ==
  /\ pc = "authscan"
  /\ calls' = Append(calls, [op |-> "GetScanByID", scanID |-> conn.scanID, err |-> "nil"])
  /\ pc' = IF disc.mode = "manual" THEN "start" ELSE "discover"
  /\ UNCHANGED <<keys, respBody, cloud, disc, conn, rawResources, seeds, resources, existingSeeds, idx, pending, result>>

\* GetResources, lines 52-54: the connector's own account with the base wrapper
DiscoverDefault ==
  /\ pc = "discover"
  /\ disc.mode = "default"
  /\ pc' = "regions"
  /\ UNCHANGED <<keys, respBody, cloud, disc, conn, rawResources, seeds, resources, existingSeeds, idx, pending, calls, result>>

\* GetResources, lines 57 and 65: the accounts of the configuration
DiscoverAccounts ==
  /\ pc = "discover"
  /\ disc.mode = "accounts"
  /\ disc' = [disc EXCEPT !.acct = 1]
  /\ pc' = "assume"
  /\ UNCHANGED <<keys, respBody, cloud, conn, rawResources, seeds, resources, existingSeeds, idx, pending, calls, result>>

\* GetResources, lines 58-62: ListAllAccounts fails
ListAllAccountsFails ==
  /\ pc = "discover"
  /\ disc.mode = "listAll"
  /\ disc' = [disc EXCEPT !.err = "list accounts failed"]
  /\ RunFails("could not get resources of cloud provider", "list accounts failed")
  /\ UNCHANGED <<keys, respBody, cloud, conn, rawResources, seeds, resources, existingSeeds, idx, pending, calls>>

\* GetResources, lines 58-65: ListAllAccounts returns the accounts
ListAllAccountsOk ==
  /\ pc = "discover"
  /\ disc.mode = "listAll"
  /\ disc' = [disc EXCEPT !.accounts = Accounts, !.acct = 1]
  /\ pc' = "assume"
  /\ UNCHANGED <<keys, respBody, cloud, conn, rawResources, seeds, resources, existingSeeds, idx, pending, calls, result>>

\* AssumeRole fails and GetResources gives up with an error
AssumeRoleFailsAborts ==
  /\ pc = "assume"
  /\ disc.acct <= Len(disc.accounts)
  /\ disc' = [disc EXCEPT !.skipped = @ \cup {disc.accounts[disc.acct]}]
  /\ rawResources' = <<>>
  /\ RunFails("could not get resources of cloud provider", "assume role failed")
  /\ UNCHANGED <<keys, respBody, cloud, conn, seeds, resources, existingSeeds, idx, pending, calls>>

\* GetResources, lines 71-75: AssumeRole fails and the account is skipped
AssumeRoleFails ==
  /\ pc = "assume"
  /\ disc.acct <= Len(disc.accounts)
  /\ disc' = [disc EXCEPT !.acct = @ + 1, !.skipped = @ \cup {disc.accounts[disc.acct]}]
  /\ UNCHANGED <<keys, respBody, cloud, conn, rawResources, seeds, pc, resources, existingSeeds, idx, pending, calls, result>>

\* GetResources, lines 71-77: the role is assumed
AssumeRoleOk ==
  /\ pc = "assume"
  /\ disc.acct <= Len(disc.accounts)
  /\ pc' = "regions"
  /\ UNCHANGED <<keys, respBody, cloud, disc, conn, rawResources, seeds, resources, existingSeeds, idx, pending, calls, result>>

\* getResources, lines 89-92, and GetResources, lines 53 and 78-80: GetRegions
\* fails and GetResources returns nil and an error
GetRegionsFails ==
  /\ pc = "regions"
  /\ rawResources' = <<>>
  /\ disc' = [disc EXCEPT !.err = "get regions failed"]
  /\ RunFails("could not get resources of cloud provider",
              WrapError("could not determine active regions", <<>>, "get regions failed"))
  /\ UNCHANGED <<keys, respBody, cloud, conn, seeds, resources, existingSeeds, idx, pending, calls>>

\* getResources, lines 89-114
GetRegionsOk ==
  /\ pc = "regions"
  /\ disc' = [disc EXCEPT !.svc = 1, !.reg = 1]
  /\ pc' = "service"
  /\ UNCHANGED <<keys, respBody, cloud, conn, rawResources, seeds, resources, existingSeeds, idx, pending, calls, result>>

\* the account whose resources the wrapper at hand sees
CurrentAccount == IF disc.mode = "default" THEN Accounts[1] ELSE disc.accounts[disc.acct]

\* what the service call at hand finds
FoundAt(account, service, region) ==
  LET here == {r \in cloud : r.account = account /\ r.service = service /\ r.region = region}
  IN IF here = {} THEN <<>> ELSE <<(CHOOSE r \in here : TRUE).name>>

\* getResources, lines 120-131: the call at hand was made after ChangeRegion;
\* on to the next region, or, after ResetRegion, to the next service
NextCall ==
  LET made == [disc EXCEPT !.queried = @ \cup {<<CurrentAccount, Services[disc.svc], Regions[disc.reg]>>}]
  IN IF disc.reg < Len(Regions)
     THEN [made EXCEPT !.reg = @ + 1, !.region = Regions[disc.reg]]
     ELSE [made EXCEPT !.svc = @ + 1, !.reg = 1, !.region = IdleDisc.region]

\* getResources, lines 115-118: the check is disabled
ServiceDisabled ==
  /\ pc = "service"
  /\ disc.svc <= Len(Services)
  /\ Services[disc.svc] \notin EnabledServices
  /\ disc' = [disc EXCEPT !.svc = @ + 1]
  /\ UNCHANGED <<keys, respBody, cloud, conn, rawResources, seeds, pc, resources, existingSeeds, idx, pending, calls, result>>

\* getResources, line 125: the call appends what it finds
ServiceCallOk ==
  /\ pc = "service"
  /\ disc.svc <= Len(Services)
  /\ Services[disc.svc] \in EnabledServices
  /\ rawResources' =
       rawResources \o FoundAt(CurrentAccount, Services[disc.svc], Regions[disc.reg])
  /\ disc' = NextCall
  /\ UNCHANGED <<keys, respBody, cloud, conn, seeds, pc, resources, existingSeeds, idx, pending, calls, result>>

\* the call fails and what was gathered before it is lost
ServiceCallFailsDropsAll ==
  /\ pc = "service"
  /\ disc.svc <= Len(Services)
  /\ Services[disc.svc] \in EnabledServices
  /\ rawResources' = <<>>
  /\ disc' = [NextCall EXCEPT !.warned = TRUE]
  /\ UNCHANGED <<keys, respBody, cloud, conn, seeds, pc, resources, existingSeeds, idx, pending, calls, result>>

\* getResources, lines 125-128: the call fails, having appended nothing or
\* what it found before the failure; the error is logged
ServiceCallFails ==
  /\ pc = "service"
  /\ disc.svc <= Len(Services)
  /\ Services[disc.svc] \in EnabledServices
  /\ \E got \in {<<>>, FoundAt(CurrentAccount, Services[disc.svc], Regions[disc.reg])} :
       rawResources' = rawResources \o got
  /\ disc' = [NextCall EXCEPT !.warned = TRUE]
  /\ UNCHANGED <<keys, respBody, cloud, conn, seeds, pc, resources, existingSeeds, idx, pending, calls, result>>

\* getResources returns, line 133: GetResources returns (line 53) or goes on to
\* the next account (line 66)
EndServices ==
  /\ pc = "service"
  /\ disc.svc > Len(Services)
  /\ IF disc.mode = "default"
     THEN pc' = "start" /\ UNCHANGED disc
     ELSE pc' = "assume" /\ disc' = [disc EXCEPT !.acct = @ + 1]
  /\ UNCHANGED <<keys, respBody, cloud, conn, rawResources, seeds, resources, existingSeeds, idx, pending, calls, result>>

\* GetResources returns the resources, line 83, and core.Run calls SyncResources
EndAccounts ==
  /\ pc = "assume"
  /\ disc.acct > Len(disc.accounts)
  /\ pc' = "start"
  /\ UNCHANGED <<keys, respBody, cloud, disc, conn, rawResources, seeds, resources, existingSeeds, idx, pending, calls, result>>

\* core.Run, lines 142-148, and the manual command, lines 97-101
RunReturn ==
  /\ pc = "done"
  /\ result' = IF result.kind = "error"
               THEN WrapError("could not sync resources with Hexiosec ASM connector", <<>>, result)
               ELSE NilError
  /\ pc' = "exit"
  /\ UNCHANGED <<keys, respBody, cloud, disc, conn, rawResources, seeds, resources, existingSeeds, idx, pending, calls>>

RunNext ==
  \/ GetAPIKeyOk
  \/ GetAPIKeyFails
  \/ GetAPIKeyNoKey
  \/ GetStateFails
  \/ GetStateNotAuthenticated
  \/ GetStateOk
  \/ GetScanFails
  \/ GetScanOk
  \/ DiscoverDefault
  \/ DiscoverAccounts
  \/ ListAllAccountsFails
  \/ ListAllAccountsOk
  \/ AssumeRoleFails
  \/ AssumeRoleOk
  \/ GetRegionsFails
  \/ GetRegionsOk
  \/ ServiceDisabled
  \/ ServiceCallOk
  \/ ServiceCallFails
  \/ EndServices
  \/ EndAccounts
  \/ Next
  \/ RunReturn

RunSpec == RunInit /\ [][RunNext]_vars

\* the inventory calls of SyncResources in the call log
SyncIdx == FetchIdx \cup AddIdx \cup RemoveIdx

\* the log shows GetState succeeding with authenticated set and then
\* GetScanByID succeeding, both before every call of SyncResources
AuthenticatedInLog ==
  \E i, j \in DOMAIN calls :
    /\ i < j
    /\ calls[i].op = "GetState" /\ calls[i].err = "nil" /\ calls[i].authenticated
    /\ calls[j].op = "GetScanByID" /\ calls[j].err = "nil"
    /\ \A k \in SyncIdx : j < k

\* the log shows a call of Authenticate that made it return an error
AuthFailedInLog ==
  \E i \in DOMAIN calls :
    \/ calls[i].op = "GetState" /\ (calls[i].err # "nil" \/ ~calls[i].authenticated)
    \/ calls[i].op = "GetScanByID" /\ calls[i].err # "nil"

\* C16: reconciliation starts only after authentication succeeded. In core.Run
\* and in the manual sync command SyncResources is not called, and no seed is
\* fetched, created or deleted, unless Authenticate returned nil; a failed
\* authentication or a failed discovery (GetResources error) ends the run with
\* an error before any inventory call of the sync.
C16_SyncOnlyAfterAuthenticate ==
  /\ (SyncIdx # {} \/ pc \in {"start", "add", "delete", "done"}) =>
       (AuthenticatedInLog /\ disc.err = "nil")
  /\ (AuthFailedInLog \/ disc.err # "nil") =>
       (SyncIdx = {} /\ pc = "exit" /\ result.kind = "error")

\* core.Run ended by a failing GetScanByID, with stale deletion on and a tagged
\* seed in the inventory
C16_Witness ==
  /\ pc = "exit"
  /\ disc.mode # "manual"
  /\ conn.deleteStale
  /\ \E i \in DOMAIN calls : calls[i].op = "GetScanByID" /\ calls[i].err # "nil"
  /\ \E j \in DOMAIN seeds : TagListHas(seeds[j].Tags, conn.seedTag)

\* ------------------------------------------------------------------------
\* normalise on its own: rawResources is the input, resources the output
\* ------------------------------------------------------------------------

NormaliseInit ==
  /\ conn = [scanID |-> ScanID, seedTag |-> SeedTag, deleteStale |-> FALSE]
  /\ \/ rawResources \in SeqsUpTo(NormPool, MaxNormLen)
     \/ \E h \in DOMAIN Spellings : rawResources \in SeqsUpTo(Spellings[h], MaxNormLen)
  /\ resources = <<>>
  /\ seeds = <<>>
  /\ pc = "normalise"
  /\ existingSeeds = EmptyMap
  /\ idx = 0
  /\ pending = {}
  /\ calls = <<>>
  /\ result = NoResult
  /\ cloud = {}
  /\ disc = IdleDisc
  /\ respBody = NilBody
  /\ keys = IdleKeys

\* resources = normalise(ctx, resources)
NormaliseStep ==
  /\ pc = "normalise"
  /\ resources' = normalise(rawResources)
  /\ pc' = "normalised"
  /\ UNCHANGED <<keys, respBody, cloud, disc, conn, rawResources, seeds, existingSeeds, idx, pending, calls, result>>

\* SyncResources, line 74: resources = dedup(ctx, resources) after normalise
SecondDedupStep ==
  /\ pc = "normalised"
  /\ resources' = dedup(resources)
  /\ pc' = "deduped"
  /\ UNCHANGED <<keys, respBody, cloud, disc, conn, rawResources, seeds, existingSeeds, idx, pending, calls, result>>

\* the working list of a run, handed to normalise once more
RenormaliseStep ==
  /\ pc = "deduped"
  /\ resources' = normalise(resources)
  /\ pc' = "renormalised"
  /\ UNCHANGED <<keys, respBody, cloud, disc, conn, rawResources, seeds, existingSeeds, idx, pending, calls, result>>

NormaliseNext ==
  \/ NormaliseStep
  \/ SecondDedupStep
  \/ RenormaliseStep

NormaliseSpec == NormaliseInit /\ [][NormaliseNext]_vars

\* the values normalise emitted through the domain branch of normaliseResource
DomainBranchValues ==
  {NormalisedPool[rawResources[k]].value :
     k \in {m \in DOMAIN rawResources : NormalisedPool[rawResources[m]].branch = "domain"}}

\* C17: every value that normalise emits through the domain branch is
\* non-empty, entirely lowercase and has no trailing dot, whatever the raw
\* input, inputs with several trailing dots included.
C17_DomainValuesInvariant ==
  pc = "normalised" =>
    \A v \in DomainBranchValues :
      /\ v \in {resources[k] : k \in DOMAIN resources}
      /\ Len(v) > 0
      /\ \A k \in 1..Len(v) : ~IsUpper(v[k])
      /\ v[Len(v)] # "."

\* ------------------------------------------------------------------------
\* getErrorCode on its own: respBody is the input, result the output
\* ------------------------------------------------------------------------

\* most members of a JSON object in a body
MaxMembers == 2

\* the bodies: no bytes, not JSON, a JSON array, a JSON object. The member
\* names are the tag, the tag in another letter case, and another name
BodyPool ==
  LET MemberKeys ==
        { <<"c", "o", "d", "e">>, <<"C", "o", "d", "e">>,
          <<"n", "o", "t", "_", "a", "_", "c", "o", "d", "e">> }
      MemberVals ==
        { [t |-> "string", s |-> "ERR123"], [t |-> "string", s |-> ""],
          [t |-> "number", s |-> ""], [t |-> "null", s |-> ""] }
  IN { [kind |-> "empty"], BodyGarbage, [kind |-> "array"] } \cup
     { [kind |-> "object", members |-> ms] :
         ms \in SeqsUpTo([key : MemberKeys, val : MemberVals], MaxMembers) }

ErrorCodeInit ==
  /\ conn = [scanID |-> ScanID, seedTag |-> SeedTag, deleteStale |-> FALSE]
  /\ rawResources = <<>>
  /\ resources = <<>>
  /\ seeds = <<>>
  /\ pc = "classify"
  /\ existingSeeds = EmptyMap
  /\ idx = 0
  /\ pending = {}
  /\ calls = <<>>
  /\ result = NoResult
  /\ cloud = {}
  /\ disc = IdleDisc
  /\ respBody \in BodyPool
  /\ keys = IdleKeys

\* code, err := getErrorCode(resp.Body)
ErrorCodeStep ==
  /\ pc = "classify"
  /\ result' = getErrorCode(respBody)
  /\ pc' = "classified"
  /\ UNCHANGED <<keys, respBody, cloud, disc, conn, rawResources, seeds, resources, existingSeeds, idx, pending, calls>>

ErrorCodeSpec == ErrorCodeInit /\ [][ErrorCodeStep]_vars

\* the last member of the object, among those at the places ps, that holds a string
LastString(ps) ==
  LET strs == {i \in ps : respBody.members[i].val.t = "string"}
  IN IF strs = {} THEN "" ELSE respBody.members[CHOOSE i \in strs : \A j \in strs : j <= i].val.s

\* the body decodes into the struct with the members at the places ps taken
\* for the field code, and that field ends up non-empty
DecodesWithCode(ps) ==
  /\ respBody.kind = "object"
  /\ \A i \in ps : respBody.members[i].val.t \in {"string", "null"}
  /\ LastString(ps) # ""

\* what getErrorCode is claimed to return when the members at ps are the field code
ReturnsCodeExactlyWhen(ps) ==
  pc = "classified" =>
    IF DecodesWithCode(ps)
    THEN result = [err |-> FALSE, code |-> LastString(ps)]
    ELSE result = [err |-> TRUE, code |-> ""]

\* the members named exactly code
ExactCodeMembers ==
  IF respBody.kind = "object"
  THEN {i \in DOMAIN respBody.members : respBody.members[i].key = <<"c", "o", "d", "e">>}
  ELSE {}

\* the members named code in any letter case
FoldedCodeMembers ==
  IF respBody.kind = "object"
  THEN {i \in DOMAIN respBody.members :
          /\ Len(respBody.members[i].key) = 4
          /\ \A k \in 1..4 :
               respBody.members[i].key[k] \in
                 {<<"c", "o", "d", "e">>[k], <<"C", "O", "D", "E">>[k]}}
  ELSE {}

\* C18 as stated: getErrorCode returns (code, no error) exactly when the body
\* decodes as a JSON object whose string field code is non-empty, the field
\* being the member named code; otherwise it returns an error and an empty
\* code.
C18_ExactFieldName == ReturnsCodeExactlyWhen(ExactCodeMembers)

\* C18 amended: getErrorCode returns (code, no error) exactly when the body
\* decodes as a JSON object whose string field code is non-empty, the field
\* being the member named code in any letter case; otherwise it returns an
\* error and an empty code.
C18_FoldedFieldName == ReturnsCodeExactlyWhen(FoldedCodeMembers)

\* getErrorCode returned the code of a body whose only member is named Code
C18_Witness ==
  /\ pc = "classified"
  /\ respBody.kind = "object"
  /\ Len(respBody.members) = 1
  /\ respBody.members[1].key = <<"C", "o", "d", "e">>
  /\ result = [err |-> FALSE, code |-> "ERR123"]

\* ------------------------------------------------------------------------
\* Discovery and stale-seed removal, end to end
\* ------------------------------------------------------------------------

\* the cloud resources the run is configured to discover: those of the enabled
\* services, in the caller's account or in the accounts the run goes through
InScope ==
  {r \in cloud :
     /\ r.service \in EnabledServices
     /\ disc.mode = "default" => r.account = Accounts[1]}

\* the seed names under which the resources present in the cloud are synced
PresentNames == {NormalisedPool[r.name].value : r \in InScope}

\* C19: with delete_stale_seeds set, a run that discovers and then syncs
\* removes a seed only when its resource is no longer present in the cloud: no
\* delete call names a seed whose resource still exists, even when part of the
\* discovery failed softly.
C19_DeletesOnlyAbsentResources ==
  \A i \in RemoveIdx :
    \A j \in DOMAIN seeds :
      seeds[j].Id = calls[i].id => seeds[j].Name \notin PresentNames

\* ------------------------------------------------------------------------
\* The order of the delete calls
\* ------------------------------------------------------------------------

\* the ids the next delete call may carry: the tagged seeds the range over
\* existingSeeds (line 140) has yet to visit, any of which Go may visit next
NextDeleteIds ==
  {existingSeeds[n].Id : n \in {m \in pending : TagListHas(existingSeeds[m].Tags, SeedTag)}}

\* C20: the order of the delete calls is determined by the inputs: with the raw
\* input, the configuration and the fetched seed list fixed, the sequence of
\* delete calls is the same in every run, so at each point of the delete loop
\* at most one seed id can be the next one deleted.
C20_DeleteOrderDetermined ==
  pc = "delete" => Cardinality(NextDeleteIds) <= 1

\* ------------------------------------------------------------------------
\* The type of a create call and the branch of normaliseResource
\* ------------------------------------------------------------------------

\* the branches of normaliseResource through which the raw input gave the value v
BranchesOf(v) ==
  {NormalisedPool[rawResources[k]].branch :
     k \in {m \in DOMAIN rawResources :
              NormalisedPool[rawResources[m]].ok /\ NormalisedPool[rawResources[m]].value = v}}

\* C21 as stated: the type of a create call is the kind normaliseResource gave
\* the item: "Domain" for a value emitted through the domain branch, the
\* address family for a value emitted through the IP branch.
C21_TypeIsNormalisationKind ==
  \A i \in AddIdx :
    /\ "domain" \in BranchesOf(calls[i].req.Name) => calls[i].req.Type = "Domain"
    /\ "ip" \in BranchesOf(calls[i].req.Name) => calls[i].req.Type = "IPv4"

\* C21 amended: the type of a create call is derived from the normalised
\* string: a value emitted through the IP branch is created with the type of
\* its address family, and a value emitted through the domain branch is
\* created with type "Domain" unless the value itself is an IPv4 address (the
\* host was an IPv4 address followed by a dot), which is created with type
\* "IPv4".
C21_TypeIsRederived ==
  \A i \in AddIdx :
    /\ BranchesOf(calls[i].req.Name) # {}
    /\ "ip" \in BranchesOf(calls[i].req.Name) => calls[i].req.Type = "IPv4"
    /\ "domain" \in BranchesOf(calls[i].req.Name) =>
         calls[i].req.Type =
           (IF calls[i].req.Name \in IPv4Values THEN "IPv4" ELSE "Domain")

\* a create call of type IPv4 for a value that came through the domain branch
C21_Witness ==
  \E i \in AddIdx :
    /\ BranchesOf(calls[i].req.Name) = {"domain"}
    /\ calls[i].req.Type = "IPv4"
    /\ calls[i].err = "nil"

\* ------------------------------------------------------------------------
\* Equivalent spellings of a host
\* ------------------------------------------------------------------------

\* the raw list is not empty and holds spellings of the host h only
SpellsOnly(h) ==
  /\ rawResources # <<>>
  /\ \A k \in DOMAIN rawResources : rawResources[k] \in Spellings[h]

\* C22: the spellings of a host h (h, h in whitespace, scheme://h,
\* scheme://user:pass@h:port/path?query, "*." before h, and for IPv6 the bare
\* and the bracketed literal) all normalise to the same value, so a list of
\* such spellings leaves a single working-list entry after the second dedup.
C22_SpellingsCollapse ==
  \A h \in DOMAIN Spellings :
    SpellsOnly(h) =>
      /\ pc = "normalised" => \A k \in DOMAIN resources : resources[k] = h
      /\ pc = "normalised" => Len(resources) = Len(rawResources)
      /\ pc = "deduped" => resources = <<h>>

\* two different spellings of the IPv6 host, the bracketed literal in a URL
\* among them, left one entry
C22_Witness ==
  /\ pc = "deduped"
  /\ Len(rawResources) = 2
  /\ rawResources[1] # rawResources[2]
  /\ SpellsOnly(<<":", ":", "1">>)
  /\ \E k \in 1..2 : Len(rawResources[k]) > 20
  /\ resources = << <<":", ":", "1">> >>

\* ------------------------------------------------------------------------
\* Connector.Authenticate
\* ------------------------------------------------------------------------

GetStateIdx == {i \in DOMAIN calls : calls[i].op = "GetState"}

GetScanIdx == {i \in DOMAIN calls : calls[i].op = "GetScanByID"}

\* Authenticate has returned, and what the program reports is neither its
\* error nor that of the step before it
AuthenticateReturnedNil ==
  /\ pc \notin {"apikey", "auth", "authscan"}
  /\ ~(pc = "exit" /\ result.kind = "error"
         /\ result.msg \in {"could not authenticate with Hexiosec ASM connector",
                            "failed to get api key",
                            "API key not provided by cloud provider or env API_KEY"})

\* C23: Authenticate returns nil only if GetState succeeded and reported
\* authenticated and GetScanByID succeeded for the configured scan id; if
\* GetState fails or reports not authenticated, Authenticate returns an error
\* and GetScanByID is not called; an error of GetScanByID is returned wrapped.
C23_AuthenticateContract ==
  /\ AuthenticateReturnedNil =>
       \E i \in GetStateIdx, j \in GetScanIdx :
         /\ i < j
         /\ calls[i].err = "nil" /\ calls[i].authenticated
         /\ calls[j].err = "nil" /\ calls[j].scanID = conn.scanID
  /\ \A i \in GetStateIdx :
       (calls[i].err # "nil" \/ ~calls[i].authenticated) =>
         /\ GetScanIdx = {}
         /\ ~AuthenticateReturnedNil
         /\ pc = "exit" /\ result.wraps.kind = "error"
         /\ calls[i].err # "nil" => result.wraps.wraps = calls[i].err
         /\ calls[i].err = "nil" => result.wraps.msg = "credentials not valid"
  /\ \A j \in GetScanIdx :
       calls[j].err # "nil" =>
         /\ ~AuthenticateReturnedNil
         /\ pc = "exit"
         /\ result.wraps = WrapError("failed to check scan exists", conn.scanID, calls[j].err)

\* GetState reported authenticated, GetScanByID failed, and the program ended
\* with the wrapped error
C23_Witness ==
  /\ pc = "exit"
  /\ \E i \in GetStateIdx : calls[i].err = "nil" /\ calls[i].authenticated
  /\ \E j \in GetScanIdx : calls[j].err # "nil" /\ result.wraps.wraps = calls[j].err

\* ------------------------------------------------------------------------
\* After a fatal create failure
\* ------------------------------------------------------------------------

\* the create calls that failed fatally
FatalAddIdx == {i \in AddIdx : calls[i].err # "nil" /\ ~CodedBadRequest(calls[i])}

\* C24: after the create call that fails fatally SyncResources makes no
\* further API call: the failed call stays the last of the log, there is no
\* delete call even with deleteStale set, and the seeds created earlier in the
\* run are left in place.
C24_FatalCreateEndsRun ==
  /\ [](\A i \in FatalAddIdx :
          /\ i = Len(calls)
          /\ RemoveIdx = {}
          /\ pc \in {"done", "exit"}
          /\ result.kind = "error")
  /\ [][FatalAddIdx # {} => calls' = calls]_vars

\* a run with deleteStale set and a tagged stale seed: one seed was created,
\* the next create call failed fatally, and no delete call followed
C24_Witness ==
  /\ pc = "exit"
  /\ conn.deleteStale
  /\ TaggedStale # {}
  /\ \E i \in FatalAddIdx : \E m \in AddIdx : m < i /\ calls[m].err = "nil"
  /\ RemoveIdx = {}

\* ------------------------------------------------------------------------
\* Stale removal and seeds that share a name
\* ------------------------------------------------------------------------

\* C25: with deleteStale set and no fatal error, every seed the fetch returned
\* that carries the seed tag and whose name is not in the working list gets
\* exactly one delete call with its own id, also when several fetched seeds
\* share a name.
C25_CompleteStaleRemoval ==
  (pc = "done" /\ conn.deleteStale /\ result = NilError) =>
    \A j \in TaggedStale :
      Cardinality({i \in RemoveIdx : calls[i].id = seeds[j].Id}) = 1

\* ------------------------------------------------------------------------
\* The index of the run
\* ------------------------------------------------------------------------

\* the ids the delete loop is due to delete, read off the snapshot, the working
\* list and the seed tag alone: for each stale name, the last fetched seed of
\* that name if it is tagged
DueIds ==
  {seeds[j].Id : j \in {k \in TaggedStale :
                          \A m \in DOMAIN seeds : seeds[m].Name = seeds[k].Name => m <= k}}

\* a step of the create loop or the delete loop removes entries of the index
\* or leaves it as it is
IndexShrinks ==
  pc \in {"add", "delete"} =>
    /\ DOMAIN existingSeeds' \subseteq DOMAIN existingSeeds
    /\ \A n \in DOMAIN existingSeeds' : existingSeeds'[n] = existingSeeds[n]

\* the delete calls are calls for due seeds, none of them for a name this run
\* sent a create call for, and at the end of a run without fatal error they
\* are exactly the due ones
DeleteCallsAsDue ==
  /\ \A i \in RemoveIdx : calls[i].id \in DueIds /\ conn.deleteStale
  /\ \A i \in RemoveIdx, m \in AddIdx :
       \A j \in DOMAIN seeds : seeds[j].Id = calls[i].id => seeds[j].Name # calls[m].req.Name
  /\ (pc \in {"done", "exit"} /\ FatalAddIdx = {} /\ FetchSucceeded) =>
       {calls[i].id : i \in RemoveIdx} = (IF conn.deleteStale THEN DueIds ELSE {})

\* C26: once built from the fetch, the index only shrinks: entries are
\* removed, never added or replaced. So no seed created in the run is deleted
\* in the run, and the delete calls depend on the snapshot, the working list,
\* the seed tag and the deleteStale flag only, not on how the create calls went.
C26_IndexOnlyShrinks ==
  /\ [][IndexShrinks]_vars
  /\ []DeleteCallsAsDue

\* a run that created a seed, skipped another create as recoverable, and then
\* deleted the stale seed of the snapshot
C26_Witness ==
  /\ pc = "exit"
  /\ \E m \in AddIdx : calls[m].err = "nil"
  /\ \E m \in AddIdx : CodedBadRequest(calls[m])
  /\ RemoveIdx # {}
  /\ {calls[i].id : i \in RemoveIdx} = DueIds

\* ------------------------------------------------------------------------
\* Normalising a normalised value
\* ------------------------------------------------------------------------

\* C27: normalisation is idempotent on its own output: every value v that
\* normalise emitted normalises again, to v itself, so the working list comes
\* back unchanged when it is handed to normalise once more.
C27_NormaliseIdempotent ==
  [][pc = "deduped" => resources' = resources]_vars

\* ------------------------------------------------------------------------
\* AWSProvider.GetResources over several accounts
\* ------------------------------------------------------------------------

\* the service calls getResources makes for an account: every enabled service
\* in every region
CallsFor(account) == {account} \X {s \in Range(Services) : s \in EnabledServices} \X Range(Regions)

\* what the first k places of the service table, region by region, hold for
\* an account
RECURSIVE FoundUpTo(_, _)
FoundUpTo(account, k) ==
  IF k = 0 THEN <<>>
  ELSE LET s == Services[((k - 1) \div Len(Regions)) + 1]
           r == Regions[((k - 1) % Len(Regions)) + 1]
       IN FoundUpTo(account, k - 1) \o
            (IF s \in EnabledServices THEN FoundAt(account, s, r) ELSE <<>>)

\* what the first n accounts hold, those skipped left out
RECURSIVE FoundInAccounts(_)
FoundInAccounts(n) ==
  IF n = 0 THEN <<>>
  ELSE FoundInAccounts(n - 1) \o
         (IF disc.accounts[n] \in disc.skipped
          THEN <<>>
          ELSE FoundUpTo(disc.accounts[n], Len(Services) * Len(Regions)))

\* GetResources has returned to core.Run without error, after the account loop
ReturnedFromAccounts ==
  /\ disc.mode \in {"accounts", "listAll"}
  /\ disc.err = "nil"
  /\ pc \in {"start", "add", "delete", "done"} \/ (pc = "exit" /\ SyncIdx # {})

\* C28: AWS multi-account discovery. When AssumeRole fails for an account,
\* GetResources skips that account (no service call is made for it), still
\* processes every remaining account (all their service calls are made), and
\* returns the resources of the other accounts with no error; a failing
\* ListAllAccounts, or a failing GetRegions in an assumed account, makes
\* GetResources return an error and no resources.
C28_AssumeRoleFailureSkipsAccount ==
  /\ ReturnedFromAccounts =>
       /\ \A a \in Range(disc.accounts) :
            IF a \in disc.skipped
            THEN \A q \in disc.queried : q[1] # a
            ELSE CallsFor(a) \subseteq disc.queried
       /\ \A i \in DOMAIN rawResources :
            \E r \in cloud : r.name = rawResources[i] /\ r.account \notin disc.skipped
       /\ ~disc.warned => rawResources = FoundInAccounts(Len(disc.accounts))
  /\ (pc = "exit" /\ SyncIdx = {} /\ AuthenticatedInLog) =>
       disc.err \in {"list accounts failed", "get regions failed"}
  /\ disc.err # "nil" =>
       /\ pc = "exit" /\ result.kind = "error"
       /\ rawResources = <<>>
       /\ SyncIdx = {}

\* the role of the first account could not be assumed, the second account
\* was gone through without a failing call, and GetResources returned what
\* the second account holds although the first one holds resources too
C28_Witness ==
  /\ pc = "start"
  /\ disc.mode = "listAll"
  /\ disc.skipped = {Accounts[1]}
  /\ ~disc.warned
  /\ \E r \in cloud : r.account = Accounts[1]
  /\ rawResources = << <<"a", ".", "i", "o">> >>

\* ------------------------------------------------------------------------
\* getResources: the service calls of one account
\* ------------------------------------------------------------------------

\* the accounts getResources was run for and has returned for, or is running for
AccountsGoneThrough ==
  IF disc.mode = "default" THEN {Accounts[1]}
  ELSE {disc.accounts[n] : n \in {m \in DOMAIN disc.accounts : m < disc.acct}} \ disc.skipped

\* a step inside the loops of getResources keeps what was gathered before it,
\* in its place at the head of the list
KeepsGathered ==
  pc = "service" =>
    /\ Len(rawResources') >= Len(rawResources)
    /\ SubSeq(rawResources', 1, Len(rawResources)) = rawResources

\* between two services and after getResources the wrapper is back in its
\* default region, a call is made in the region of its place in the loop, and
\* once getResources has returned every enabled service was called in every
\* region, whether or not a call failed
LoopsRunToTheEnd ==
  /\ (pc = "service" /\ disc.reg = 1) => disc.region = IdleDisc.region
  /\ (pc = "service" /\ disc.reg > 1) => disc.region = Regions[disc.reg - 1]
  /\ pc \in {"assume", "start", "add", "delete", "done"} => disc.region = IdleDisc.region
  /\ (disc.mode # "manual" /\ pc \in {"assume", "start", "add", "delete", "done"}) =>
       \A a \in AccountsGoneThrough : CallsFor(a) \subseteq disc.queried
  /\ (pc = "service" /\ disc.svc > Len(Services)) => CallsFor(CurrentAccount) \subseteq disc.queried

\* C29: AWS per-service discovery is fault-tolerant and loses nothing. In
\* getResources a failing discovery call for one enabled service in one region
\* does not abort the loop: all remaining regions and services are still
\* queried, the region is reset after each service, and the resources gathered
\* by earlier calls are still in the list that is returned.
C29_ServiceFailureLosesNothing ==
  /\ [][KeepsGathered]_vars
  /\ []LoopsRunToTheEnd

\* the EC2 call of the first account found its resource, the S3 call of that
\* account failed and lost the one it should have found, and the S3 call of
\* the second account, made afterwards in the second region, found its own:
\* GetResources returned the first and the last
C29_Witness ==
  /\ pc = "start"
  /\ disc.mode = "accounts"
  /\ disc.warned
  /\ disc.skipped = {}
  /\ cloud = CloudResources
  /\ rawResources = << <<"1", ".", "2", ".", "3", ".", "4">>, <<"a", ".", "i", "o">> >>
  /\ disc.queried = CallsFor(Accounts[1]) \cup CallsFor(Accounts[2])

\* ------------------------------------------------------------------------
\* core.Run: the API key
\* ------------------------------------------------------------------------

\* the value API_KEY was found to hold is white space at most
EnvValueBlank == \A i \in DOMAIN keys.env.val : keys.env.val[i] = " "

\* core.Run, not the manual command, which reads API_KEY itself
InCoreRun == disc.mode # "manual"

\* C30: API key selection in core.Run. The key returned by the cloud provider
\* is used when GetAPIKey succeeds; the API_KEY environment variable is
\* consulted only when GetAPIKey returns ErrNoAPIKey; any other GetAPIKey
\* error, or an unset or blank API_KEY in the fallback case, ends the run with
\* an error before the ASM client is created or any inventory call is made.
C30_APIKeySelection ==
  InCoreRun =>
    /\ keys.provider.err = "nil" =>
         /\ keys.sdk = [created |-> TRUE, key |-> keys.provider.key]
         /\ ~keys.env.read
    /\ keys.env.read => keys.provider.err = "ErrNoAPIKey"
    /\ (keys.env.read /\ keys.env.set /\ ~EnvValueBlank) =>
         keys.sdk = [created |-> TRUE, key |-> keys.env.val]
    /\ (\/ keys.provider.err \notin {"not called", "nil", "ErrNoAPIKey"}
        \/ keys.env.read /\ (~keys.env.set \/ EnvValueBlank)) =>
         /\ pc = "exit" /\ result.kind = "error"
         /\ ~keys.sdk.created
         /\ calls = <<>>
    /\ calls # <<>> => keys.sdk.created
    /\ keys.sdk.created => pc # "apikey"

\* no secret is configured and API_KEY holds a blank: the run has ended with
\* an error, without ASM client and without a call
C30_Witness ==
  /\ InCoreRun
  /\ keys.provider.err = "ErrNoAPIKey"
  /\ keys.env = [read |-> TRUE, set |-> TRUE, val |-> <<" ">>]
  /\ pc = "exit"
  /\ result.kind = "error"
  /\ ~keys.sdk.created
  /\ calls = <<>>

====
